---- MODULE Spec2Model ----
(***************************************************************************)
(* Verification model of voice-chess: the move-search engine               *)
(* (src/src/lib/ChessBotEngine.ts), the post-game analyzer                 *)
(* (src/src/components/GameAnalyzer.ts) and the game controller            *)
(* (ChessGame, src/unnamed/part_001).                                      *)
(*                                                                         *)
(* The rules engine (chess.js) is an external library.  It is modelled as a *)
(* family of finite game trees: a position is the sequence of move indices *)
(* that leads to it from the first position of the game, and what the      *)
(* library reports about a position (legal moves, check, draw, the board)  *)
(* is a fixed function of the game's number `world` and of the position.   *)
(*                                                                         *)
(* Scores are kept in thousandths (ScoreUnit) so that the evaluator's      *)
(* jitter (Math.random() - 0.5) * 0.1 is an integer: with Math.random()    *)
(* in hundredths r, the jitter is r - 50 thousandths.                      *)
(***************************************************************************)
EXTENDS Integers, Sequences, FiniteSets, TLC

\* ------------------------------------------------------------------------
\* Bounds of the model
\* ------------------------------------------------------------------------
\* most legal moves the rules engine reports in one position
MaxBranch == 2
\* largest depth argument a caller passes to getBestMove
MaxDepth == 4
\* plies after which every game of the family has ended
GameLen == 9
\* number of games in the family
NumWorlds == 4
\* depth argument of the one deep search of SpecDeep
DeepDepth == 8

\* ------------------------------------------------------------------------
\* Values
\* ------------------------------------------------------------------------
\* null: a record, so that it compares with moves and other records
Null == [isNull |-> TRUE]
Undefined == "undefined"
ScoreUnit == 1000
\* Infinity / -Infinity of the source: above every score the engine computes
Infinity == 2000000000
MATE == 100000
REPETITION == 5000

Max(a, b) == IF a >= b THEN a ELSE b
Min(a, b) == IF a <= b THEN a ELSE b
Abs(a) == IF a >= 0 THEN a ELSE -a

\* ------------------------------------------------------------------------
\* ChessBotEngine: material values and positional tables
\* ------------------------------------------------------------------------
PIECE_VALUES == [p |-> 1, n |-> 3, b |-> 3, r |-> 5, q |-> 9, k |-> 0]

PAWN_TABLE ==
  << <<0,  0,  0,  0,  0,  0,  0,  0>>,
     <<2, -2, -3,  0,  0, -3, -2,  2>>,
     <<0,  0,  0, -3, -3,  0,  0,  0>>,
     <<2,  2,  3,  6,  6,  3,  2,  2>>,
     <<3,  3,  6, 12, 12,  6,  3,  3>>,
     <<9,  9, 12, 18, 18, 12,  9,  9>>,
     <<27,27,27,27,27,27,27,27>>,
     <<0,  0,  0,  0,  0,  0,  0,  0>> >>

KNIGHT_TABLE ==
  << <<-30, -25, -20, -20, -20, -20, -25, -30>>,
     <<-25, -12,   0,   0,   0,   0, -12, -25>>,
     <<-20,   3,   6,   9,   9,   6,   3, -20>>,
     <<-20,   3,   9,  12,  12,   9,   3, -20>>,
     <<-20,   3,   9,  12,  12,   9,   3, -20>>,
     <<-20,   3,   6,   9,   9,   6,   3, -20>>,
     <<-25, -12,   0,   3,   3,   0, -12, -25>>,
     <<-30, -25, -20, -20, -20, -20, -25, -30>> >>

BISHOP_TABLE ==
  << <<-12, -6, -6, -6, -6, -6, -6, -12>>,
     <<-6,   3,  0,  0,  0,  0,  3,  -6>>,
     <<-6,   6,  6,  6,  6,  6,  6,  -6>>,
     <<-6,   0,  6,  9,  9,  6,  0,  -6>>,
     <<-6,   3,  6,  9,  9,  6,  3,  -6>>,
     <<-6,   0,  6,  6,  6,  6,  0,  -6>>,
     <<-6,   0,  0,  0,  0,  0,  0,  -6>>,
     <<-12, -6, -6, -6, -6, -6, -6, -12>> >>

ROOK_TABLE ==
  << <<0,  0,  0,  4,  4,  0,  0,  0>>,
     <<-4,  0,  0,  0,  0,  0,  0, -4>>,
     <<-4,  0,  0,  0,  0,  0,  0, -4>>,
     <<-4,  0,  0,  0,  0,  0,  0, -4>>,
     <<-4,  0,  0,  0,  0,  0,  0, -4>>,
     <<-4,  0,  0,  0,  0,  0,  0, -4>>,
     <<4, 15, 15, 15, 15, 15, 15,  4>>,
     <<0,  0,  0,  0,  0,  0,  0,  0>> >>

QUEEN_TABLE ==
  << <<-10, -5, -5, -2, -2, -5, -5, -10>>,
     <<-5,   0,  2,  0,  0,  0,  0,  -5>>,
     <<-5,   2,  2,  2,  2,  2,  0,  -5>>,
     <<-2,   0,  2,  5,  5,  2,  0,  -2>>,
     <<-2,   0,  2,  5,  5,  2,  0,  -2>>,
     <<-5,   0,  2,  2,  2,  2,  0,  -5>>,
     <<-5,   0,  0,  0,  0,  0,  0,  -5>>,
     <<-10, -5, -5, -2, -2, -5, -5, -10>> >>

KING_TABLE ==
  << <<-40, -32, -24, -16, -16, -24, -32, -40>>,
     <<-24, -16, -8,   0,   0,  -8, -16, -24>>,
     <<-24, -8,  16,  24,  24, 16,  -8, -24>>,
     <<-24, -8,  24,  32,  32, 24,  -8, -24>>,
     <<-24, -8,  24,  32,  32, 24,  -8, -24>>,
     <<-24, -8,  16,  24,  24, 16,  -8, -24>>,
     <<-24, -24, 0,   0,   0,  0,  -24, -24>>,
     <<-40, -24, -24, -24, -24, -24, -24, -40>> >>

\* getPieceValue(piece, row, col): rows and columns are 0..7 as in
\* game.board(); the tables are 1-indexed tuples here.
getPieceValue(piece, row, col) ==
  LET baseValue == PIECE_VALUES[piece.type] * 100
      tableRow == IF piece.color = "b" THEN row ELSE 7 - row
      positionalValue ==
        CASE piece.type = "p" -> PAWN_TABLE[tableRow + 1][col + 1]
          [] piece.type = "n" -> KNIGHT_TABLE[tableRow + 1][col + 1]
          [] piece.type = "b" -> BISHOP_TABLE[tableRow + 1][col + 1]
          [] piece.type = "r" -> ROOK_TABLE[tableRow + 1][col + 1]
          [] piece.type = "k" -> KING_TABLE[tableRow + 1][col + 1]
          [] OTHER -> 0
  IN baseValue + positionalValue

\* ------------------------------------------------------------------------
\* The rules engine (chess.js, external), as the engine uses it
\* ------------------------------------------------------------------------
Worlds == 0 .. NumWorlds - 1

Pc(t, c, row, col) == [type |-> t, color |-> c, row |-> row, col |-> col]

\* The piece placements of the family, by ply modulo 4 (a placement can
\* recur only after both sides moved a piece out and back) and variant.
Placements ==
  << << {Pc("k","w",7,6), Pc("q","w",7,3), Pc("p","w",4,4),
         Pc("k","b",0,6), Pc("r","b",0,0), Pc("n","b",2,5)},
        {Pc("k","w",7,6), Pc("r","w",7,0), Pc("p","w",6,4),
         Pc("k","b",0,6), Pc("q","b",0,3), Pc("p","b",1,4)} >>,
     << {Pc("k","w",7,6), Pc("q","w",4,7), Pc("p","w",4,4),
         Pc("k","b",0,6), Pc("r","b",0,0), Pc("n","b",2,5)},
        {Pc("k","w",7,6), Pc("r","w",0,0), Pc("p","w",6,4),
         Pc("k","b",0,6), Pc("p","b",1,4)} >>,
     << {Pc("k","w",7,6), Pc("q","w",4,7), Pc("p","w",4,4),
         Pc("k","b",0,6), Pc("r","b",0,0), Pc("n","b",3,3)},
        {Pc("k","w",7,6), Pc("b","w",3,2), Pc("p","w",6,4),
         Pc("k","b",1,5), Pc("q","b",0,3), Pc("p","b",1,4)} >>,
     << {Pc("k","w",7,6), Pc("q","w",7,3), Pc("p","w",3,4),
         Pc("k","b",0,6), Pc("r","b",0,0), Pc("n","b",2,5)},
        {Pc("k","w",6,5), Pc("n","w",5,5), Pc("p","w",6,4),
         Pc("k","b",0,6), Pc("b","b",2,2), Pc("p","b",3,4)} >> >>

\* What the library reports about a position is drawn from this number.
Hash(w, pos) ==
  LET h[n \in 0 .. Len(pos)] ==
        IF n = 0 THEN (w * 37 + 11) % 1013
        ELSE (h[n - 1] * 31 + pos[n] * 101 + 7) % 1013
  IN h[Len(pos)]

BranchTable == <<0, 1, 1, 2, 2, 2, 3, 3>>

\* game.moves().length
NumMoves(w, pos) ==
  IF Len(pos) >= GameLen THEN 0
  ELSE Min(MaxBranch, BranchTable[(Hash(w, pos) % 8) + 1])

\* game.inCheck()
InCheck(w, pos) == (Hash(w, pos) \div 8) % 2 = 1

\* game.isCheckmate(), game.isStalemate()
IsCheckmate(w, pos) == NumMoves(w, pos) = 0 /\ InCheck(w, pos)
IsStalemate(w, pos) == NumMoves(w, pos) = 0 /\ ~InCheck(w, pos)

\* isDraw() by the half-move counter or the material: the library reports
\* it whether or not legal moves remain, in a checkmate position too
DrawByRule(w, pos) == (Hash(w, pos) \div 16) % 8 = 0

\* game.isDraw(), game.isGameOver()
IsDraw(w, pos) == IsStalemate(w, pos) \/ DrawByRule(w, pos)
IsGameOver(w, pos) == IsCheckmate(w, pos) \/ IsStalemate(w, pos) \/ IsDraw(w, pos)

\* game.turn()
Turn(w, pos) == IF (w + Len(pos)) % 2 = 0 THEN "w" ELSE "b"

\* the piece placement of a position: its index in Placements
PlacementOf(w, pos) == <<(Len(pos) % 4) + 1, ((Hash(w, pos) \div 128) % 2) + 1>>

\* game.board(), as the set of its occupied squares
Board(w, pos) == Placements[PlacementOf(w, pos)[1]][PlacementOf(w, pos)[2]]

\* game.moves({ verbose: true }): squares are numbered 0..63
MoveAt(w, pos, k) ==
  LET h == Hash(w, pos)
  IN [from |-> (h + 7 * k) % 64,
      to |-> (h \div 2 + 5 * k + 1) % 64,
      promotion |-> IF (h + k) % 5 = 0 THEN "q" ELSE Undefined,
      san |-> k]

Moves(w, pos) == [k \in 1 .. NumMoves(w, pos) |-> MoveAt(w, pos, k)]

\* game.fen(): piece placement, side to move, and the remaining fields
\* (castling, en passant, move counters), which identify the position
Fen(w, pos) == [placement |-> PlacementOf(w, pos), turn |-> Turn(w, pos), rest |-> pos]

\* fen.split(' ')[0]
PlacementKey(fen) == fen.placement

\* a Chess object: its position and the moves made on this object
NewChess(fen) == [pos |-> fen.rest, made |-> 0]

\* game.move(move): the legal move with the same from/to/promotion
IsLegal(w, pos, move) ==
  \E k \in 1 .. NumMoves(w, pos) :
     /\ MoveAt(w, pos, k).from = move.from
     /\ MoveAt(w, pos, k).to = move.to
     /\ MoveAt(w, pos, k).promotion = move.promotion

MoveIndex(w, pos, move) ==
  CHOOSE k \in 1 .. NumMoves(w, pos) :
     /\ MoveAt(w, pos, k).from = move.from
     /\ MoveAt(w, pos, k).to = move.to
     /\ MoveAt(w, pos, k).promotion = move.promotion

ChessMove(w, game, move) ==
  [pos |-> Append(game.pos, MoveIndex(w, game.pos, move)), made |-> game.made + 1]

\* ------------------------------------------------------------------------
\* Math.random(): a generator with a hidden state.  State 0 is the stubbed
\* generator that always returns 0.5 (the jitter is then 0: the
\* deterministic evaluator); the other states cycle.  Values in hundredths.
\* ------------------------------------------------------------------------
MaxRngSeed == 1
RandomTable == <<0, 99, 50>>
RandomValue(r) == IF r = 0 THEN 50 ELSE RandomTable[((r - 1) % 3) + 1]
RandomNext(r) == IF r = 0 THEN 0 ELSE (r % 3) + 1 + 3 * ((r - 1) \div 3)

\* ------------------------------------------------------------------------
\* State
\* ------------------------------------------------------------------------
VARIABLES
  world,            \* the game the rules engine plays (fixed)
  rng,              \* state of Math.random
  heap,             \* the Chess objects: heap[1] is the caller's game, the
                    \* object ChessGame holds in its `game` state
  positionHistory,  \* ChessBotEngine.positionHistory
  stack,            \* call stack of getBestMove / minimax
  pc,               \* "idle", "running", "returned", "unwinding", "thrown"
  result,           \* what the last getBestMove call returned
  entry,            \* the arguments and engine state at the call's entry
  minimaxCalls,     \* minimax invocations of the current call
  mateLog,          \* mate scores minimax returned in the current call
  lastEval,         \* the last evaluatePosition call of the current call
  pruned,           \* TRUE once a loop of the current call cut siblings off
  failed            \* TRUE once a call of the rules engine threw in the current call

engineVars == <<world, rng, heap, positionHistory, stack, pc, result, entry,
                minimaxCalls, mateLog, lastEval, pruned, failed>>

\* the engine's variables but the caller's game
engineRest == <<world, rng, positionHistory, stack, pc, result, entry,
                minimaxCalls, mateLog, lastEval, pruned, failed>>

VARIABLES
  positions,        \* the EvaluatedPosition[] given to GameAnalyzer.analyzeGame
  apc,              \* "idle", or "loop" while analyzeGame runs
  ai,               \* analyzeGame's loop index i
  lossLog,          \* the evalLoss classified at each index of the current run
  atEntry,          \* the sequence as it was when the current or last run began
  runs              \* completed runs of analyzeGame on the sequence

analyzerVars == <<positions, apc, ai, lossLog, atEntry, runs>>

VARIABLES
  probe             \* a direct call of getPieceValue or evaluatePosition:
                    \* its arguments and, once made, what it returned

probeVars == <<probe>>

VARIABLES
  currentGame,      \* ChessGame's `game` state: the position of its Chess object
  isThinking,       \* ChessGame's `isThinking` state
  currentDifficulty, \* ChessGame's `botDifficulty` state
  gamePositions,    \* ChessGame's `gamePositions` state
  currentMoveIndex, \* ChessGame's `currentMoveIndex` state
  moveHistory,      \* ChessGame's `moveHistory` state: the SAN of each move
  timers,           \* the callbacks given to setTimeout and not yet run, oldest
                    \* first, each with the `game` and `botDifficulty` it closes over
  effectPending,    \* game, isThinking or botDifficulty changed and the
                    \* bot-trigger effect has not run since
  recognition,      \* the SpeechRecognition object that was started and has not
                    \* ended: the `game`, `isThinking`, `moveHistory` and
                    \* `gamePositions` its handleVoiceCommand closes over, or Null
  lastAction,       \* ghost: the handler that ran last and the position it used
  userEvents        \* ghost: the number of user events handled so far

controllerVars == <<currentGame, isThinking, currentDifficulty, gamePositions,
                    currentMoveIndex, moveHistory, timers, effectPending, recognition,
                    lastAction, userEvents>>

\* what the engine's steps and the analyzer's steps leave alone
nonEngineVars == <<analyzerVars, probeVars, controllerVars>>
nonAnalyzerVars == <<engineVars, probeVars, controllerVars>>

Depths == 0 .. MaxDepth

Front(s) == SubSeq(s, 1, Len(s) - 1)
Top(s) == s[Len(s)]

\* ------------------------------------------------------------------------
\* ChessBotEngine.evaluatePosition
\* ------------------------------------------------------------------------
SumPieces(pieces) ==
  LET sum[rest \in SUBSET pieces] ==
        IF rest = {} THEN 0
        ELSE LET piece == CHOOSE x \in rest : TRUE
                 value == getPieceValue(piece, piece.row, piece.col)
             IN (IF piece.color = "b" THEN value ELSE -value) + sum[rest \ {piece}]
  IN sum[pieces]

Repetitions(history, currentPos) ==
  Cardinality({n \in 1 .. Len(history) : PlacementKey(history[n]) = currentPos})

\* a slip in the scale of the jitter: `* 2` for `* 0.1`
JitterWide(random) == (random - 50) * 20

\* `(Math.random() - 0.5) * 0.1`, line 227, in thousandths, for a value
\* of Math.random() given in hundredths
Jitter(random) == random - 50

\* TRUE when evaluatePosition reaches the material sum (and calls Math.random)
ReachesMaterial(w, pos, history) ==
  /\ ~IsCheckmate(w, pos)
  /\ ~(IsDraw(w, pos) \/ IsStalemate(w, pos))
  /\ ~(Repetitions(history, PlacementKey(Fen(w, pos))) >= 2)

\* a slip in the order: the draw test made before the checkmate test
evaluatePositionDrawFirst(w, pos, history, random) ==
  IF IsDraw(w, pos) \/ IsStalemate(w, pos)
    THEN 0
  ELSE IF IsCheckmate(w, pos)
    THEN (IF Turn(w, pos) = "w" THEN -MATE ELSE MATE) * ScoreUnit
  ELSE IF Repetitions(history, PlacementKey(Fen(w, pos))) >= 2
    THEN (IF Turn(w, pos) = "w" THEN -REPETITION ELSE REPETITION) * ScoreUnit
  ELSE SumPieces(Board(w, pos)) * ScoreUnit + Jitter(random)

\* evaluatePosition(game), lines 190-230, in thousandths
evaluatePosition(w, pos, history, random) ==
  IF IsCheckmate(w, pos)
    THEN (IF Turn(w, pos) = "w" THEN -MATE ELSE MATE) * ScoreUnit
  ELSE IF IsDraw(w, pos) \/ IsStalemate(w, pos)
    THEN 0
  ELSE IF Repetitions(history, PlacementKey(Fen(w, pos))) >= 2
    THEN (IF Turn(w, pos) = "w" THEN -REPETITION ELSE REPETITION) * ScoreUnit
  ELSE SumPieces(Board(w, pos)) * ScoreUnit + Jitter(random)

\* ------------------------------------------------------------------------
\* ChessBotEngine.getBestMove / minimax, one action per step
\* ------------------------------------------------------------------------
\* a slip in the emptiness test: `moves.length <= 1`
NoLegalMovesAtMostOne(moves) == Len(moves) <= 1

\* `if (moves.length === 0) return null`, line 96
NoLegalMoves(moves) == Len(moves) = 0

\* the BotMove built at lines 114-118 and 131-135
BotMoveOf(move) == [from |-> move.from, to |-> move.to, promotion |-> move.promotion]

\* a slip in the mate score: the distance from the root is dropped
MateScoreFlat(isMaximizing, plyFromRoot) ==
  IF isMaximizing THEN -MATE * ScoreUnit ELSE MATE * ScoreUnit

\* a slip in the scale of the mate score: 1000 for 100000
MateScoreBelowMaterial(isMaximizing, plyFromRoot) ==
  IF isMaximizing THEN -(1000 - plyFromRoot) * ScoreUnit
  ELSE (1000 - plyFromRoot) * ScoreUnit

\* minimax: the score of a checkmate node, line 153
MateScore(isMaximizing, plyFromRoot) ==
  IF isMaximizing THEN -(MATE - plyFromRoot) * ScoreUnit
  ELSE (MATE - plyFromRoot) * ScoreUnit

\* a slip in the pruning test: `beta < alpha`
CutOffStrict(alpha, beta) == beta < alpha

\* a slip in the pruning test: `alpha <= beta`
CutOffInverted(alpha, beta) == alpha <= beta

\* minimax: `if (beta <= alpha) break`, lines 170 and 181
CutOff(alpha, beta) == beta <= alpha

\* a slip in the recursion: the depth is passed on unchanged
ChildDepthSame(depth) == depth

\* the depth argument of the recursive calls, lines 127, 167, 178
ChildDepth(depth) == depth - 1

\* a slip in the root selection: `value >= bestValue`
BetterOrEqual(value, bestValue) == value >= bestValue

\* getBestMove: `if (value > bestValue)`, line 129
Better(value, bestValue) == value > bestValue

\* a slip in the clean-up: the pop is left out
PopHistoryMissing(history) == history

\* this.positionHistory.pop(), lines 113 and 142
PopHistory(history) == Front(history)

\* a slip: the root position is pushed twice
PushHistoryTwice(history, fen) == Append(Append(history, fen), fen)

\* `this.positionHistory.push(game.fen())`, line 99
PushHistory(history, fen) == Append(history, fen)

\* a slip in the order of minimax's tests: the depth limit tested first
NodeKindDepthFirst(isCheckmate, depth, isGameOver) ==
  IF depth = 0 \/ isGameOver THEN "leaf"
  ELSE IF isCheckmate THEN "mate"
  ELSE "inner"

\* the tests at the head of minimax, lines 151-158, in their order
NodeKind(isCheckmate, depth, isGameOver) ==
  IF isCheckmate THEN "mate"
  ELSE IF depth = 0 \/ isGameOver THEN "leaf"
  ELSE "inner"

\* a slip in the scan: `game.isCheckmate()`, the position before the move
ScanTestsParent(w, pos) == IsCheckmate(w, Front(pos))

\* getBestMove: `if (gameCopy.isCheckmate())`, line 111
ScanFindsMate(w, pos) == IsCheckmate(w, pos)

\* a slip in the copy: `const gameCopy = game`, the same object
CopySlotAlias(h, g) == g

\* `new Chess(game.fen())`: the heap slot of the copy, a fresh object
CopySlot(h, g) == Len(h) + 1

\* the object `gameCopy` refers to before gameCopy.move(move)
CopyOf(w, h, g) == IF CopySlot(h, g) = g THEN h[g] ELSE NewChess(Fen(w, h[g].pos))

\* the heap after `gameCopy = new Chess(game.fen()); gameCopy.move(move)`
\* for the game in slot g; the copy is in slot CopySlot(h, g)
CopyAndMove(w, h, g, move) ==
  LET slot == CopySlot(h, g)
      moved == ChessMove(w, CopyOf(w, h, g), move)
  IN IF slot = Len(h) + 1 THEN Append(h, moved) ELSE [h EXCEPT ![slot] = moved]

\* the heap once the copy in `slot` is no longer referenced
Release(h, slot, g) == IF slot = Len(h) /\ slot # g THEN Front(h) ELSE h

Frame(fn, phase, game, depth, alpha, beta, isMax, ply, moves) ==
  [fn |-> fn, phase |-> phase, game |-> game, depth |-> depth,
   alpha |-> alpha, beta |-> beta, isMaximizing |-> isMax, ply |-> ply,
   moves |-> moves, i |-> 1,
   best |-> IF isMax THEN -Infinity ELSE Infinity,
   bestMove |-> Null, cut |-> FALSE,
   alpha0 |-> alpha, beta0 |-> beta, vals |-> << >>]

InitEngine ==
  /\ world \in Worlds
  /\ rng \in 0 .. MaxRngSeed
  /\ heap = << [pos |-> << >>, made |-> 0] >>
  /\ positionHistory = << >>
  /\ stack = << >>
  /\ pc = "idle"
  /\ result = Null
  /\ entry = Null
  /\ minimaxCalls = 0
  /\ mateLog = {}
  /\ lastEval = Null
  /\ pruned = FALSE
  /\ failed = FALSE

\* a statement of the running frame throws (gameCopy.move(move) on a move
\* that is illegal in the copy's position, or any call of the rules
\* engine): the exception starts to leave the frames of the call
Throws ==
  /\ pc' = "unwinding"
  /\ failed' = TRUE
  /\ UNCHANGED <<stack, heap, positionHistory, result>>

\* a slip: getBestMove wraps its body in try/catch and answers null
CatchesAtRoot(fn) == fn = "getBestMove"

\* whether a frame of this function handles an exception thrown in it or
\* below it: getBestMove (lines 94-144) and minimax (lines 149-185) hold
\* no try statement
Catches(fn) == FALSE

\* the exception leaves the top frame, or is handled there: a handler
\* ends the call with null, a frame without one is dropped with its copy
\* of the game, and the exception reaches the caller of getBestMove after
\* the last frame
Unwind ==
  /\ pc = "unwinding"
  /\ LET f == Top(stack)
     IN IF Catches(f.fn)
          THEN /\ result' = Null
               /\ stack' = << >>
               /\ heap' = << heap[1] >>
               /\ pc' = "returned"
          ELSE /\ stack' = Front(stack)
               /\ heap' = IF Len(stack) > 1
                            THEN Release(heap, f.game, stack[Len(stack) - 1].game)
                            ELSE << heap[1] >>
               /\ pc' = IF Len(stack) > 1 THEN "unwinding" ELSE "thrown"
               /\ UNCHANGED result
  /\ UNCHANGED <<nonEngineVars, world, rng, positionHistory, entry, minimaxCalls,
                 mateLog, lastEval, pruned, failed>>

\* a getBestMove call made by the setTimeout callback of makeBotMove is
\* running, or has returned to the callback, which has not ended yet; an
\* exception that left getBestMove has left the callback too (part_001
\* lines 253-293 hold no try statement)
InCallback ==
  pc \in {"running", "unwinding", "returned"} /\ probe # Null /\ probe.op = "makeBotMove"

\* no code is on the stack: getBestMove (lines 94-185) and the setTimeout
\* callback (part_001 lines 253-293) are synchronous, so a call, a handler
\* or an effect begins only when no call is running and no callback is
\* waiting for its call; a call that has returned, or has thrown to its
\* caller, leaves the engine object ready for the next one
Quiescent == pc \in {"idle", "returned", "thrown"} /\ ~InCallback

\* getBestMove(game, depth), lines 95-104
GetBestMoveCall(depth) ==
  /\ Quiescent
  /\ LET moves == Moves(world, heap[1].pos)
     IN /\ entry' = [depth |-> depth, game |-> heap[1],
                     history |-> positionHistory, rng |-> rng]
        /\ minimaxCalls' = 0
        /\ mateLog' = {}
        /\ lastEval' = Null
        /\ pruned' = FALSE
        /\ IF NoLegalMoves(moves)
             THEN /\ result' = Null
                  /\ pc' = "returned"
                  /\ UNCHANGED <<positionHistory, stack>>
             ELSE /\ positionHistory' = PushHistory(positionHistory, Fen(world, heap[1].pos))
                  /\ stack' = << Frame("getBestMove", "mate", 1, depth,
                                       -Infinity, Infinity, TRUE, 0, moves) >>
                  /\ pc' = "running"
                  /\ result' = Null
  /\ failed' = FALSE
  /\ UNCHANGED <<world, rng, heap>>

\* getBestMove(game, depth) called on the engine by any caller
GetBestMove(depth) ==
  /\ GetBestMoveCall(depth)
  /\ UNCHANGED nonEngineVars

\* the depth presets: getBestMove's default (line 94), getQuickMove
\* (line 269), getStrongMove (line 276)
DefaultDepth == 3
QuickDepth == 2
StrongDepth == 4

\* getBestMove(game): the depth parameter takes its default
GetBestMoveDefault ==
  /\ GetBestMoveCall(DefaultDepth)
  /\ probe' = [op |-> "getBestMove"]
  /\ UNCHANGED <<analyzerVars, controllerVars>>

\* getQuickMove(game), lines 268-270
GetQuickMove ==
  /\ GetBestMoveCall(QuickDepth)
  /\ probe' = [op |-> "getQuickMove"]
  /\ UNCHANGED <<analyzerVars, controllerVars>>

\* getStrongMove(game), lines 275-277
GetStrongMove ==
  /\ GetBestMoveCall(StrongDepth)
  /\ probe' = [op |-> "getStrongMove"]
  /\ UNCHANGED <<analyzerVars, controllerVars>>

\* the game controller's difficulty setting
Difficulties == {"easy", "medium", "hard"}

\* a slip in the controller's switch: medium searches as deep as hard
DifficultyDepthShifted(botDifficulty) ==
  CASE botDifficulty = "easy" -> 2
    [] botDifficulty = "medium" -> 4
    [] botDifficulty = "hard" -> 4

\* the switch of ChessGame.makeBotMove
DifficultyDepth(botDifficulty) ==
  CASE botDifficulty = "easy" -> 2
    [] botDifficulty = "medium" -> 3
    [] botDifficulty = "hard" -> 4

\* the depth named in the label of getDifficultyLabel
LabelDepth(difficulty) ==
  CASE difficulty = "easy" -> 2
    [] difficulty = "medium" -> 3
    [] difficulty = "hard" -> 4

\* one iteration of the immediate-checkmate loop, lines 107-120
MateScan ==
  /\ pc = "running"
  /\ Len(stack) = 1
  /\ stack[1].phase = "mate"
  /\ LET f == stack[1]
         move == f.moves[f.i]
         slot == CopySlot(heap, f.game)
     IN IF ~IsLegal(world, CopyOf(world, heap, f.game).pos, move)
          THEN Throws
          ELSE LET h2 == CopyAndMove(world, heap, f.game, move)
               IN /\ heap' = Release(h2, slot, f.game)
                  /\ UNCHANGED failed
                  /\ IF ScanFindsMate(world, h2[slot].pos)
                       THEN /\ positionHistory' = PopHistory(positionHistory)
                            /\ result' = BotMoveOf(move)
                            /\ stack' = << >>
                            /\ pc' = "returned"
                       ELSE /\ stack' = << IF f.i < Len(f.moves)
                                             THEN [f EXCEPT !.i = f.i + 1]
                                             ELSE [f EXCEPT !.i = 1, !.phase = "search"] >>
                            /\ UNCHANGED <<positionHistory, result, pc>>
  /\ UNCHANGED <<nonEngineVars, world, rng, entry, minimaxCalls, mateLog, lastEval, pruned>>

\* a slip: minimax pushes the position it is entered with
MinimaxPushesHistory(w, history, pos) == Append(history, Fen(w, pos))

\* positionHistory across a call of minimax: lines 149-185 hold no
\* statement on this.positionHistory
MinimaxHistory(w, history, pos) == history

\* a loop iteration up to the call of minimax: lines 124-127 at the root
\* (the child is minimizing at ply 1), 165-167 and 176-178 inside minimax
CallMinimax(f, childIsMax) ==
  IF ~IsLegal(world, CopyOf(world, heap, f.game).pos, f.moves[f.i])
    THEN Throws /\ UNCHANGED minimaxCalls
    ELSE /\ heap' = CopyAndMove(world, heap, f.game, f.moves[f.i])
         /\ stack' = Append(stack,
              Frame("minimax", "entry", CopySlot(heap, f.game), ChildDepth(f.depth),
                    f.alpha, f.beta, childIsMax, f.ply + 1, << >>))
         /\ minimaxCalls' = minimaxCalls + 1
         /\ positionHistory' =
              MinimaxHistory(world, positionHistory,
                             ChessMove(world, CopyOf(world, heap, f.game), f.moves[f.i]).pos)
         /\ UNCHANGED <<pc, result, failed>>

RootIter ==
  /\ pc = "running"
  /\ Len(stack) = 1
  /\ stack[1].phase = "search"
  /\ stack[1].i <= Len(stack[1].moves)
  /\ CallMinimax(stack[1], FALSE)
  /\ UNCHANGED <<nonEngineVars, world, rng, entry, mateLog, lastEval, pruned>>

\* the end of the root loop, lines 141-143
RootReturn ==
  /\ pc = "running"
  /\ Len(stack) = 1
  /\ LET f == stack[1]
     IN /\ f.phase = "search"
        /\ f.i > Len(f.moves)
        /\ positionHistory' = PopHistory(positionHistory)
        /\ result' = f.bestMove
        /\ stack' = << >>
        /\ pc' = "returned"
  /\ UNCHANGED <<nonEngineVars, world, rng, heap, entry, minimaxCalls, mateLog, lastEval,
                 pruned, failed>>

\* what the caller of minimax does with the returned value:
\* lines 129-138 at the root, 168-170 and 179-181 inside minimax
Absorb(p, value) ==
  IF p.fn = "getBestMove"
    THEN [p EXCEPT !.best = IF Better(value, p.best) THEN value ELSE p.best,
                   !.bestMove = IF Better(value, p.best)
                                  THEN BotMoveOf(p.moves[p.i]) ELSE p.bestMove,
                   !.alpha = Max(p.alpha, value),
                   !.vals = Append(p.vals, value),
                   !.i = p.i + 1]
  ELSE IF p.isMaximizing
    THEN [p EXCEPT !.best = Max(p.best, value),
                   !.alpha = Max(p.alpha, value),
                   !.cut = CutOff(Max(p.alpha, value), p.beta),
                   !.i = p.i + 1]
    ELSE [p EXCEPT !.best = Min(p.best, value),
                   !.beta = Min(p.beta, value),
                   !.cut = CutOff(p.alpha, Min(p.beta, value)),
                   !.i = p.i + 1]

\* the stack and heap after the top minimax frame returns `value`
ReturnValue(value) ==
  LET f == Top(stack)
      p == stack[Len(stack) - 1]
  IN /\ stack' = Append(SubSeq(stack, 1, Len(stack) - 2), Absorb(p, value))
     /\ heap' = Release(heap, f.game, p.game)

\* minimax at a checkmate node, lines 151-154
MinimaxMate ==
  /\ pc = "running"
  /\ Len(stack) > 1
  /\ LET f == Top(stack)
         score == MateScore(f.isMaximizing, f.ply)
     IN /\ f.phase = "entry"
        /\ NodeKind(IsCheckmate(world, heap[f.game].pos), f.depth,
                    IsGameOver(world, heap[f.game].pos)) = "mate"
        /\ mateLog' = mateLog \cup
             {[ply |-> f.ply, isMaximizing |-> f.isMaximizing, score |-> score]}
        /\ ReturnValue(score)
  /\ UNCHANGED <<nonEngineVars, world, rng, positionHistory, pc, result, entry, minimaxCalls,
                 lastEval, pruned, failed>>

\* minimax at a leaf, lines 156-158
MinimaxLeaf ==
  /\ pc = "running"
  /\ Len(stack) > 1
  /\ LET f == Top(stack)
         pos == heap[f.game].pos
         value == evaluatePosition(world, pos, positionHistory, RandomValue(rng))
     IN /\ f.phase = "entry"
        /\ NodeKind(IsCheckmate(world, pos), f.depth, IsGameOver(world, pos)) = "leaf"
        /\ rng' = IF ReachesMaterial(world, pos, positionHistory)
                    THEN RandomNext(rng) ELSE rng
        /\ lastEval' = [pos |-> pos,
                        path |-> [n \in 1 .. Len(stack) |->
                                    Fen(world, heap[stack[n].game].pos)],
                        history |-> positionHistory,
                        value |-> value]
        /\ ReturnValue(value)
  /\ UNCHANGED <<nonEngineVars, world, positionHistory, pc, result, entry, minimaxCalls,
                 mateLog, pruned, failed>>

\* minimax at an inner node: the moves are generated, line 160
MinimaxExpand ==
  /\ pc = "running"
  /\ Len(stack) > 1
  /\ LET f == Top(stack)
         pos == heap[f.game].pos
     IN /\ f.phase = "entry"
        /\ NodeKind(IsCheckmate(world, pos), f.depth, IsGameOver(world, pos)) = "inner"
        /\ stack' = [stack EXCEPT ![Len(stack)] =
                       [f EXCEPT !.phase = "loop", !.moves = Moves(world, pos)]]
  /\ UNCHANGED <<nonEngineVars, world, rng, heap, positionHistory, pc, result, entry,
                 minimaxCalls, mateLog, lastEval, pruned, failed>>

\* one iteration of a minimax loop up to the recursive call
MinimaxIter ==
  /\ pc = "running"
  /\ Len(stack) > 1
  /\ Top(stack).phase = "loop"
  /\ Top(stack).i <= Len(Top(stack).moves)
  /\ ~Top(stack).cut
  /\ CallMinimax(Top(stack), ~Top(stack).isMaximizing)
  /\ UNCHANGED <<nonEngineVars, world, rng, entry, mateLog, lastEval, pruned>>

\* the end of a minimax loop (by exhaustion or by break), lines 172 and 183
MinimaxReturn ==
  /\ pc = "running"
  /\ Len(stack) > 1
  /\ LET f == Top(stack)
     IN /\ f.phase = "loop"
        /\ f.i > Len(f.moves) \/ f.cut
        /\ pruned' = (pruned \/ (f.cut /\ f.i <= Len(f.moves)))
        /\ ReturnValue(f.best)
  /\ UNCHANGED <<nonEngineVars, world, rng, positionHistory, pc, result, entry,
                 minimaxCalls, mateLog, lastEval, failed>>

\* failed calls whose root position stays in positionHistory, at most
MaxFailures == 2

\* a call of the rules engine made by a running getBestMove call
\* (game.fen(), new Chess, move, isCheckmate, isGameOver, moves, board, ...)
\* throws
ProviderFails ==
  /\ pc = "running"
  /\ Len(positionHistory) <= MaxFailures
  /\ Throws
  /\ UNCHANGED <<nonEngineVars, world, rng, entry, minimaxCalls, mateLog, lastEval, pruned>>

\* getBestMove(game, depth) is called and game.moves() at line 95 throws:
\* nothing was pushed yet
GetBestMoveFails(depth) ==
  /\ Quiescent
  /\ entry' = [depth |-> depth, game |-> heap[1],
               history |-> positionHistory, rng |-> rng]
  /\ minimaxCalls' = 0
  /\ mateLog' = {}
  /\ lastEval' = Null
  /\ pruned' = FALSE
  /\ result' = Null
  /\ stack' = << Frame("getBestMove", "entry", 1, depth, -Infinity, Infinity, TRUE, 0,
                       << >>) >>
  /\ pc' = "unwinding"
  /\ failed' = TRUE
  /\ UNCHANGED <<nonEngineVars, world, rng, heap, positionHistory>>

\* the steps of a running call
EngineStep ==
  \/ MateScan
  \/ RootIter
  \/ RootReturn
  \/ MinimaxMate
  \/ MinimaxLeaf
  \/ MinimaxExpand
  \/ MinimaxIter
  \/ MinimaxReturn

\* a fresh engine asked for one deep search of the first position
NextDeep ==
  \/ (heap[1].pos = << >> /\ GetBestMove(DeepDepth))
  \/ EngineStep

\* ------------------------------------------------------------------------
\* GameAnalyzer.analyzeGame / classifyMove
\* ------------------------------------------------------------------------
\* longest sequence given to analyzeGame
MaxPositions == 3
\* the evaluations of the positions
Evals == {0, 25, 26, 30, 50, 51, 100, 101, 200, 201, 400, 401}
\* runs of analyzeGame on one unchanged sequence
MaxRuns == 2

BRILLIANT == "brilliant"
GREAT == "great"
BEST == "best"
EXCELLENT == "excellent"
GOOD == "good"
BOOK == "book"
FORCED == "forced"
INACCURACY == "inaccuracy"
MISTAKE == "mistake"
BLUNDER == "blunder"

\* a slip in a threshold: `evalLoss < 50`
classifyMoveStrict(evalLoss) ==
  IF evalLoss <= 0 THEN BEST
  ELSE IF evalLoss <= 25 THEN BEST
  ELSE IF evalLoss < 50 THEN EXCELLENT
  ELSE IF evalLoss <= 100 THEN GOOD
  ELSE IF evalLoss <= 200 THEN INACCURACY
  ELSE IF evalLoss <= 400 THEN MISTAKE
  ELSE BLUNDER

\* classifyMove(evalLoss), lines 227-240
classifyMove(evalLoss) ==
  IF evalLoss <= 0 THEN BEST
  ELSE IF evalLoss <= 25 THEN BEST
  ELSE IF evalLoss <= 50 THEN EXCELLENT
  ELSE IF evalLoss <= 100 THEN GOOD
  ELSE IF evalLoss <= 200 THEN INACCURACY
  ELSE IF evalLoss <= 400 THEN MISTAKE
  ELSE BLUNDER

\* a slip in the parity: even indices taken for the first side
IsWhiteMoveEven(i) == i % 2 = 0

\* `const isWhiteMove = i % 2 === 1`, line 194
IsWhiteMove(i) == i % 2 = 1

\* a slip that also touches the evaluation of the element
ClassifyBumpsEvaluation(ps, i, c) ==
  [ps EXCEPT ![i + 1].classification = c, ![i + 1].evaluation = @ + 1]

\* a slip in the index: the classification goes to prevPos
ClassifyPrevious(ps, i, c) == [ps EXCEPT ![i].classification = c]

\* `currentPos.classification = ...`, line 223, currentPos being
\* positions[i] (lines 190, 223); element i of the source is ps[i + 1]
Classify(ps, i, c) == [ps EXCEPT ![i + 1].classification = c]

\* a slip in the sign: the two branches exchanged
EvalLossSwapped(isWhiteMove, evalChange) ==
  IF isWhiteMove THEN evalChange ELSE -evalChange

\* lines 203-213
EvalLoss(isWhiteMove, evalChange) ==
  IF isWhiteMove THEN -evalChange ELSE evalChange

\* the game tree `new Chess()` is the root of: White moves first
StandardGame == 2

EmptyText == << >>

\* moveResult.san
SanOf(move) == << move.san >>

\* `move.from + move.to + (move.promotion || '')`, GameAnalyzer line 21
UciOf(move) ==
  << move.from, move.to >> \o
    (IF move.promotion = Undefined THEN EmptyText ELSE << move.promotion >>)

\* GameAnalyzer.createInitialPosition(fen), lines 8-14
createInitialPosition(fen) ==
  [fen |-> fen, move |-> [san |-> EmptyText, uci |-> EmptyText], evaluation |-> 0,
   classification |-> Undefined]

\* GameAnalyzer.createEvaluatedPosition(fen, move, evaluation), lines 16-27
createEvaluatedPosition(fen, move, evaluation) ==
  [fen |-> fen, move |-> [san |-> SanOf(move), uci |-> UciOf(move)],
   evaluation |-> evaluation, classification |-> Undefined]

\* element n (from 1) of a sequence given to analyzeGame: what
\* createEvaluatedPosition builds for the n-th position of a game
InputPosition(n, evaluation) ==
  createEvaluatedPosition(Fen(StandardGame, [j \in 1 .. n |-> 1]),
                          MoveAt(StandardGame, [j \in 1 .. n - 1 |-> 1], 1),
                          evaluation)

\* the sequences given to analyzeGame: up to MaxPositions elements, with
\* any evaluations
AnalyzerInputs ==
  {[n \in 1 .. Len(evaluations) |-> InputPosition(n, evaluations[n])] :
     evaluations \in UNION {[1 .. len -> Evals] : len \in 0 .. MaxPositions}}

InitAnalyzer ==
  /\ positions = << >>
  /\ apc = "idle"
  /\ ai = 0
  /\ lossLog = << >>
  /\ atEntry = << >>
  /\ runs = 0

\* analyzeGame(positions) is called: `let i = 1`, line 189
AnalyzeGame ==
  /\ apc = "idle"
  /\ runs < MaxRuns
  /\ apc' = "loop"
  /\ ai' = 1
  /\ lossLog' = << >>
  /\ atEntry' = positions
  /\ UNCHANGED <<positions, runs, nonAnalyzerVars>>

\* one iteration of the loop, lines 189-224; element i of the source is
\* positions[i + 1] here
AnalyzeStep ==
  /\ apc = "loop"
  /\ ai < Len(positions)
  /\ LET currentPos == positions[ai + 1]
         prevPos == positions[ai]
         evalChange == currentPos.evaluation - prevPos.evaluation
         evalLoss == EvalLoss(IsWhiteMove(ai), evalChange)
     IN /\ positions' = Classify(positions, ai, classifyMove(evalLoss))
        /\ lossLog' = Append(lossLog, evalLoss)
  /\ ai' = ai + 1
  /\ UNCHANGED <<apc, atEntry, runs, nonAnalyzerVars>>

\* the loop ends and analyzeGame returns
AnalyzeReturn ==
  /\ apc = "loop"
  /\ ~(ai < Len(positions))
  /\ apc' = "idle"
  /\ runs' = runs + 1
  /\ UNCHANGED <<positions, ai, lossLog, atEntry, nonAnalyzerVars>>

NextAnalyzer ==
  \/ AnalyzeGame
  \/ AnalyzeStep
  \/ AnalyzeReturn

\* ------------------------------------------------------------------------
\* getPieceValue and evaluatePosition called directly
\* ------------------------------------------------------------------------
\* longest move sequence leading to a position given to evaluatePosition
ProbeLen == 6

PieceTypes == {"p", "n", "b", "r", "q", "k"}
Colors == {"w", "b"}

\* values of Math.random(), in hundredths: the least, the middle, the greatest
RandomInputs == {0, 50, 99}

\* the position pos exists in game w
Reachable(w, pos) ==
  \A n \in 1 .. Len(pos) : pos[n] <= NumMoves(w, SubSeq(pos, 1, n - 1))

ProbePositions(w) ==
  {pos \in UNION {[1 .. n -> 1 .. MaxBranch] : n \in 0 .. ProbeLen} : Reachable(w, pos)}

\* contents of positionHistory when evaluatePosition is called on pos
ProbeHistories(w, pos) ==
  {<< >>, <<Fen(w, pos)>>, <<Fen(w, << >>), Fen(w, pos)>>, <<Fen(w, pos), Fen(w, pos)>>,
   <<Fen(w, << >>), Fen(w, << >>)>>}

EvalArgs(w) ==
  UNION {{[pos |-> pos, history |-> history, random |-> random] :
            history \in ProbeHistories(w, pos), random \in RandomInputs} :
         pos \in ProbePositions(w)}

\* one call with any arguments, or two calls with an empty history, the
\* second on one of the first positions of the game
ProbeInputs(w) ==
  {[op |-> "getPieceValue", piece |-> [type |-> t, color |-> c],
    row |-> row, col |-> col, out |-> Null] :
     t \in PieceTypes, c \in Colors, row \in 0 .. 7, col \in 0 .. 7}
  \cup
  {[op |-> "evaluatePosition", args |-> <<a>>, outs |-> << >>] : a \in EvalArgs(w)}
  \cup
  {[op |-> "evaluatePosition", args |-> <<a, b>>, outs |-> << >>] :
     a \in {x \in EvalArgs(w) : x.history = << >>},
     b \in {x \in EvalArgs(w) : x.history = << >> /\ Len(x.pos) <= 1}}

\* getPieceValue(piece, row, col) is called
GetPieceValueCall ==
  /\ probe # Null
  /\ probe.op = "getPieceValue"
  /\ probe.out = Null
  /\ probe' = [probe EXCEPT !.out = [value |-> getPieceValue(probe.piece, probe.row, probe.col)]]
  /\ UNCHANGED <<engineVars, analyzerVars, controllerVars>>

\* evaluatePosition(game) is called, positionHistory being a.history and
\* Math.random(), if called, returning a.random
EvaluatePositionCall ==
  /\ probe # Null
  /\ probe.op = "evaluatePosition"
  /\ Len(probe.outs) < Len(probe.args)
  /\ LET a == probe.args[Len(probe.outs) + 1]
     IN probe' = [probe EXCEPT !.outs = Append(@,
                    [value |-> evaluatePosition(world, a.pos, a.history, a.random),
                     randomCalled |-> ReachesMaterial(world, a.pos, a.history)])]
  /\ UNCHANGED <<engineVars, analyzerVars, controllerVars>>

NextEvaluator ==
  \/ GetPieceValueCall
  \/ EvaluatePositionCall

\* ------------------------------------------------------------------------
\* ChessGame: the game controller.  A `game` state is the position of its
\* Chess object; a text (SAN, UCI) is a tuple, the empty string being << >>
\* ------------------------------------------------------------------------
\* most user events (drops, voice commands, restarts, move clicks) of a run
MaxUserEvents == 5

\* the pieceValues of calculateMaterialBalance, GameAnalyzer line 116
AnalyzerPieceValue(type) ==
  CASE type = "p" -> 100
    [] type = "n" -> 320
    [] type = "b" -> 330
    [] type = "r" -> 500
    [] type = "q" -> 900
    [] type = "k" -> 0

\* GameAnalyzer.calculateMaterialBalance, lines 115-130
calculateMaterialBalance(pieces) ==
  LET balance[rest \in SUBSET pieces] ==
        IF rest = {} THEN 0
        ELSE LET piece == CHOOSE x \in rest : TRUE
                 value == AnalyzerPieceValue(piece.type)
             IN (IF piece.color = "w" THEN value ELSE -value) + balance[rest \ {piece}]
  IN balance[pieces]

\* detectHangingPieces plus detectForks, GameAnalyzer lines 63-113 and
\* 132-185: a number the attacks of the position decide, drawn here from
\* the position as the library's other answers are
HangingAndForks(w, pos) == ((Hash(w, pos) \div 256) % 4) * 30 - 30

\* GameAnalyzer.getBotEvaluation(fen), lines 29-46, with the check bonus of
\* detectTacticalBonuses, lines 52-56
getBotEvaluation(w, pos) ==
  IF IsCheckmate(w, pos) THEN (IF Turn(w, pos) = "w" THEN -10000 ELSE 10000)
  ELSE IF IsDraw(w, pos) THEN 0
  ELSE calculateMaterialBalance(Board(w, pos))
         + (IF InCheck(w, pos) THEN (IF Turn(w, pos) = "w" THEN -50 ELSE 50) ELSE 0)
         + HangingAndForks(w, pos)

\* GameAnalyzer.analyzeGame(positions) run to its end, lines 187-225:
\* element i of the source is ps[i + 1]
analyzeGame(ps) ==
  LET run[positions0 \in {ps}] ==
        [n \in 1 .. Len(positions0) |->
           IF n = 1 THEN positions0[n]
           ELSE [positions0[n] EXCEPT !.classification =
                   classifyMove(EvalLoss(IsWhiteMove(n - 1),
                                         positions0[n].evaluation
                                           - positions0[n - 1].evaluation))]]
  IN run[ps]

\* array.slice(0, -n) for n >= 1
SliceEnd(s, n) == SubSeq(s, 1, Max(Len(s) - n, 0))

\* the position `new Chess()` reaches by the moves of `history`
\* (handleUndo, lines 209-212)
Replayed(history) == [n \in 1 .. Len(history) |-> history[n][1]]

\* whether newGame.move(move) succeeds for every move of `history`
Replays(w, history) ==
  \A n \in 1 .. Len(history) :
     history[n][1] \in 1 .. NumMoves(w, SubSeq(Replayed(history), 1, n - 1))

\* the guard of handleVoiceCommand (line 142) and onPieceDrop (line 298)
PlayerMayMove(turn, isGameOver, thinking) ==
  ~(turn # "w" \/ isGameOver \/ thinking)

\* the guard of makeBotMove, line 247
BotMayMove(turn, isGameOver) == ~(turn # "b" \/ isGameOver)

\* the move library's game.move({from, to, promotion: 'q'}) picks: the
\* first legal move with these squares
DropMoveIndex(w, pos, sourceSquare, targetSquare) ==
  LET fits == {k \in 1 .. NumMoves(w, pos) :
                 /\ MoveAt(w, pos, k).from = sourceSquare
                 /\ MoveAt(w, pos, k).to = targetSquare}
  IN IF fits = {} THEN 0 ELSE CHOOSE k \in fits : \A j \in fits : k <= j

\* the indices MoveHistory passes to onMoveClick, MoveHistory lines 127-143:
\* the second move of each pair, or the first when the pair has no second
ClickIndices(ps) ==
  {(IF i + 2 <= Len(ps) - 1 THEN i + 2 ELSE i + 1) :
     i \in {j \in 0 .. Len(ps) - 2 : j % 2 = 0}}

InitController ==
  /\ currentGame = << >>
  /\ isThinking = FALSE
  /\ currentDifficulty = "medium"
  /\ gamePositions = << createInitialPosition(Fen(world, << >>)) >>
  /\ currentMoveIndex = 0
  /\ moveHistory = << >>
  /\ timers = << >>
  /\ effectPending = FALSE
  /\ recognition = Null
  /\ lastAction = [op |-> "mount", from |-> << >>]
  /\ userEvents = 0

\* makeMove(move) for a move the library accepts on `game`, lines 176-190,
\* with addMoveToAnalysis, lines 222-244; `game` is the state of the render
\* the caller closes over, the lists are the latest ones
MakeMove(g, k) ==
  \E moveResult \in {MoveAt(world, g, k)} :
  \E gameCopy \in {ChessMove(world, NewChess(Fen(world, g)), moveResult)} :
  \E evaluation \in {getBotEvaluation(world, gameCopy.pos)} :
  \E evaluatedPosition \in
       {createEvaluatedPosition(Fen(world, gameCopy.pos), moveResult, evaluation)} :
  \E newPositions \in {analyzeGame(Append(gamePositions, evaluatedPosition))} :
     /\ heap' = << gameCopy >>
     /\ currentGame' = gameCopy.pos
     /\ moveHistory' = Append(moveHistory, SanOf(moveResult))
     /\ gamePositions' = newPositions
     /\ currentMoveIndex' = Len(newPositions) - 1

\* makeMove(move) called with the k-th legal move of the game held, by any
\* of its callers, between two calls of the engine
PlayMove(k) ==
  /\ Quiescent
  /\ k \in 1 .. NumMoves(world, heap[1].pos)
  /\ MakeMove(heap[1].pos, k)
  /\ effectPending' = TRUE
  /\ pc' = "idle"
  /\ result' = Null
  /\ entry' = Null
  /\ minimaxCalls' = 0
  /\ mateLog' = {}
  /\ lastEval' = Null
  /\ pruned' = FALSE
  /\ failed' = FALSE
  /\ UNCHANGED <<isThinking, currentDifficulty, timers, recognition, lastAction,
                 userEvents>>
  /\ UNCHANGED <<analyzerVars, probeVars, world, rng, positionHistory, stack>>

\* onPieceDrop(sourceSquare, targetSquare) with a legal move, lines 296-333
OnPieceDrop(sourceSquare, targetSquare) ==
  /\ Quiescent
  /\ ~effectPending
  /\ PlayerMayMove(Turn(world, currentGame), IsGameOver(world, currentGame), isThinking)
  /\ DropMoveIndex(world, currentGame, sourceSquare, targetSquare) # 0
  /\ MakeMove(currentGame, DropMoveIndex(world, currentGame, sourceSquare, targetSquare))
  /\ effectPending' = TRUE
  /\ lastAction' = [op |-> "onPieceDrop", from |-> currentGame]
  /\ UNCHANGED <<isThinking, currentDifficulty, timers, recognition>>
  /\ UNCHANGED <<engineRest, analyzerVars, probeVars>>

\* SimpleVoiceTest.handleClick when it is not listening, SimpleVoiceTest
\* lines 84-99: recognitionRef.current.start().  The effect of lines 46-82
\* runs again whenever onVoiceCommand changes, which it does at every
\* render of ChessGame (handleVoiceCommand is a new function each time,
\* part_001 lines 138 and 385), so the recogniser started is the one of the
\* latest render, and its onresult (lines 60-72) holds that render's
\* handleVoiceCommand
StartListening ==
  /\ Quiescent
  /\ ~effectPending
  /\ recognition = Null
  /\ recognition' = [game |-> currentGame, isThinking |-> isThinking,
                     moveHistory |-> moveHistory, gamePositions |-> gamePositions]
  /\ lastAction' = [op |-> "handleClick", from |-> currentGame]
  /\ UNCHANGED <<currentGame, isThinking, currentDifficulty, gamePositions,
                 currentMoveIndex, moveHistory, timers, effectPending, userEvents>>
  /\ UNCHANGED <<engineVars, analyzerVars, probeVars>>

\* the started recogniser ends and leaves the game as it is: onerror or
\* onend (SimpleVoiceTest lines 74-75), or a result that handleVoiceCommand
\* refuses (the guard of line 142, an unknown or illegal command)
RecognitionEnds ==
  /\ Quiescent
  /\ ~effectPending
  /\ recognition # Null
  /\ recognition' = Null
  /\ lastAction' = [op |-> "onend", from |-> currentGame]
  /\ UNCHANGED <<currentGame, isThinking, currentDifficulty, gamePositions,
                 currentMoveIndex, moveHistory, timers, effectPending, userEvents>>
  /\ UNCHANGED <<engineVars, analyzerVars, probeVars>>

\* the result of the started recogniser arrives (SimpleVoiceTest lines
\* 60-72) with a command parseVoiceCommand turns into the SAN of the k-th
\* legal move: handleVoiceCommand, lines 138-156, of the render that made
\* the recogniser.  A later render stops that recogniser (the cleanup of
\* SimpleVoiceTest lines 77-81) without taking its onresult away, and a
\* stopped recogniser still returns the result of the audio it has, so the
\* guard, parseVoiceCommand and makeMove work on that render's `game` and
\* `isThinking`
HandleVoiceMove(k) ==
  /\ Quiescent
  /\ ~effectPending
  /\ recognition # Null
  /\ PlayerMayMove(Turn(world, recognition.game), IsGameOver(world, recognition.game),
                   recognition.isThinking)
  /\ k \in 1 .. NumMoves(world, recognition.game)
  /\ MakeMove(recognition.game, k)
  /\ effectPending' = TRUE
  /\ recognition' = Null
  /\ lastAction' = [op |-> "handleVoiceCommand", from |-> recognition.game]
  /\ UNCHANGED <<isThinking, currentDifficulty, timers>>
  /\ UNCHANGED <<engineRest, analyzerVars, probeVars>>

\* the result 'undo' arrives: handleVoiceCommand and handleUndo, lines
\* 162-163 and 196-220, of the render that made the recogniser, when there
\* are moves to undo and newGame.move accepts every move kept; `game`,
\* `moveHistory` and `gamePositions` are that render's
HandleVoiceUndo ==
  /\ Quiescent
  /\ ~effectPending
  /\ recognition # Null
  /\ PlayerMayMove(Turn(world, recognition.game), IsGameOver(world, recognition.game),
                   recognition.isThinking)
  /\ Len(recognition.moveHistory) # 0
  /\ LET movesToRemove == IF Turn(world, recognition.game) = "w" THEN 2 ELSE 1
         newHistory == SliceEnd(recognition.moveHistory, movesToRemove)
         newPositions == SliceEnd(recognition.gamePositions, movesToRemove)
     IN /\ Replays(world, newHistory)
        /\ heap' = << [pos |-> Replayed(newHistory), made |-> Len(newHistory)] >>
        /\ currentGame' = Replayed(newHistory)
        /\ moveHistory' = newHistory
        /\ gamePositions' = newPositions
        /\ currentMoveIndex' = Len(newPositions) - 1
  /\ effectPending' = TRUE
  /\ recognition' = Null
  /\ lastAction' = [op |-> "handleUndo", from |-> recognition.game]
  /\ UNCHANGED <<isThinking, currentDifficulty, timers>>
  /\ UNCHANGED <<engineRest, analyzerVars, probeVars>>

\* the bot-trigger effect, lines 363-367, and makeBotMove up to setTimeout,
\* lines 246-253
BotTriggerEffect ==
  /\ Quiescent
  /\ effectPending
  /\ IF /\ Turn(world, currentGame) = "b"
        /\ ~IsGameOver(world, currentGame)
        /\ ~isThinking
        /\ BotMayMove(Turn(world, currentGame), IsGameOver(world, currentGame))
       THEN /\ isThinking' = TRUE
            /\ timers' = Append(timers, [game |-> currentGame,
                                         botDifficulty |-> currentDifficulty])
            /\ effectPending' = TRUE
       ELSE /\ effectPending' = FALSE
            /\ UNCHANGED <<isThinking, timers>>
  /\ lastAction' = [op |-> "effect", from |-> currentGame]
  /\ UNCHANGED <<recognition, userEvents>>
  /\ UNCHANGED <<currentGame, currentDifficulty, gamePositions, currentMoveIndex,
                 moveHistory>>
  /\ UNCHANGED <<engineVars, analyzerVars, probeVars>>

\* the moves getBestMove(game, depth) can return: one of game.moves(),
\* which one being decided by the evaluation and Math.random
BestMoves(w, pos, depth) ==
  {BotMoveOf(MoveAt(w, pos, k)) : k \in 1 .. NumMoves(w, pos)}

\* the oldest setTimeout callback runs, lines 253-293: `game`,
\* `botDifficulty` and makeMove are those of the render that called
\* makeBotMove
BotTimerFires ==
  /\ Quiescent
  /\ ~effectPending
  /\ timers # << >>
  /\ LET t == Head(timers)
         depth == DifficultyDepth(t.botDifficulty)
     IN /\ IF BestMoves(world, t.game, depth) = {}
             THEN UNCHANGED <<heap, currentGame, moveHistory, gamePositions,
                              currentMoveIndex>>
             ELSE \E botMove \in BestMoves(world, t.game, depth) :
                     MakeMove(t.game, MoveIndex(world, t.game, botMove))
        /\ lastAction' = [op |-> "makeBotMove", from |-> t.game, depth |-> depth]
  /\ isThinking' = FALSE
  /\ timers' = Tail(timers)
  /\ effectPending' = TRUE
  /\ UNCHANGED <<currentDifficulty, recognition, userEvents>>
  /\ UNCHANGED <<engineRest, analyzerVars, probeVars>>

\* the callback given to setTimeout up to the engine's call, lines 253-266,
\* getBestMove being run step by step: `game` and `botDifficulty` are those
\* of the render that called makeBotMove, and the game held is still that
\* one when no handler replaced it in between
MakeBotMoveCall ==
  /\ ~effectPending
  /\ timers # << >>
  /\ Head(timers).game = heap[1].pos
  /\ GetBestMoveCall(DifficultyDepth(Head(timers).botDifficulty))
  /\ probe' = [op |-> "makeBotMove", botDifficulty |-> Head(timers).botDifficulty]
  /\ timers' = Tail(timers)
  /\ UNCHANGED <<currentGame, isThinking, currentDifficulty, gamePositions,
                 currentMoveIndex, moveHistory, effectPending, recognition, lastAction,
                 userEvents>>
  /\ UNCHANGED analyzerVars

\* the rest of the callback once getBestMove has returned, lines 268-292
MakeBotMoveDone ==
  /\ pc = "returned"
  /\ InCallback
  /\ IF result # Null
       THEN MakeMove(entry.game.pos, MoveIndex(world, entry.game.pos, result))
       ELSE UNCHANGED <<heap, currentGame, moveHistory, gamePositions, currentMoveIndex>>
  /\ isThinking' = FALSE
  /\ effectPending' = TRUE
  /\ pc' = "idle"
  /\ UNCHANGED <<currentDifficulty, timers, recognition, lastAction, userEvents>>
  /\ UNCHANGED <<analyzerVars, probeVars, world, rng, positionHistory, stack, result,
                 entry, minimaxCalls, mateLog, lastEval, pruned, failed>>

\* `disabled={isThinking}` of the Restart and difficulty buttons,
\* BoardContainer (VoiceButton.tsx lines 262-295)
ButtonEnabled(thinking) == ~thinking

\* restartGame, lines 335-346, from its button
RestartGame ==
  /\ Quiescent
  /\ ~effectPending
  /\ ButtonEnabled(isThinking)
  /\ heap' = << NewChess(Fen(world, << >>)) >>
  /\ currentGame' = << >>
  /\ moveHistory' = << >>
  /\ isThinking' = FALSE
  /\ gamePositions' = << createInitialPosition(Fen(world, << >>)) >>
  /\ currentMoveIndex' = 0
  /\ effectPending' = TRUE
  /\ lastAction' = [op |-> "restartGame", from |-> currentGame]
  /\ UNCHANGED <<currentDifficulty, timers, recognition>>
  /\ UNCHANGED <<engineRest, analyzerVars, probeVars>>

\* handleDifficultyChange(newDifficulty), lines 348-350, from its button;
\* makeBotMove is created anew when botDifficulty changes (line 294), and
\* the bot-trigger effect runs again
HandleDifficultyChange(newDifficulty) ==
  /\ Quiescent
  /\ ~effectPending
  /\ ButtonEnabled(isThinking)
  /\ currentDifficulty' = newDifficulty
  /\ effectPending' = (newDifficulty # currentDifficulty)
  /\ lastAction' = [op |-> "handleDifficultyChange", from |-> currentGame]
  /\ UNCHANGED <<currentGame, isThinking, gamePositions, currentMoveIndex, moveHistory,
                 timers, recognition>>
  /\ UNCHANGED <<engineVars, analyzerVars, probeVars>>

\* handleMoveClick(moveIndex), lines 352-360
HandleMoveClick(moveIndex) ==
  /\ Quiescent
  /\ ~effectPending
  /\ currentMoveIndex' = moveIndex
  /\ IF moveIndex + 1 \in 1 .. Len(gamePositions)
       THEN /\ heap' = << NewChess(gamePositions[moveIndex + 1].fen) >>
            /\ currentGame' = gamePositions[moveIndex + 1].fen.rest
            /\ effectPending' = TRUE
       ELSE UNCHANGED <<heap, currentGame, effectPending>>
  /\ lastAction' = [op |-> "handleMoveClick", from |-> currentGame]
  /\ UNCHANGED <<isThinking, currentDifficulty, gamePositions, moveHistory, timers,
                 recognition>>
  /\ UNCHANGED <<engineRest, analyzerVars, probeVars>>

\* the user's events are counted, up to MaxUserEvents
NextController ==
  \/ \E k \in 1 .. MaxBranch :
        /\ userEvents < MaxUserEvents
        /\ k <= NumMoves(world, currentGame)
        /\ OnPieceDrop(MoveAt(world, currentGame, k).from, MoveAt(world, currentGame, k).to)
        /\ userEvents' = userEvents + 1
  \/ \E k \in 1 .. MaxBranch :
        userEvents < MaxUserEvents /\ HandleVoiceMove(k) /\ userEvents' = userEvents + 1
  \/ (userEvents < MaxUserEvents /\ HandleVoiceUndo /\ userEvents' = userEvents + 1)
  \/ StartListening
  \/ RecognitionEnds
  \/ BotTriggerEffect
  \/ BotTimerFires
  \/ (userEvents < MaxUserEvents /\ RestartGame /\ userEvents' = userEvents + 1)
  \/ \E newDifficulty \in Difficulties :
        /\ userEvents < MaxUserEvents
        /\ HandleDifficultyChange(newDifficulty)
        /\ userEvents' = userEvents + 1
  \/ \E moveIndex \in ClickIndices(gamePositions) :
        userEvents < MaxUserEvents /\ HandleMoveClick(moveIndex) /\ userEvents' = userEvents + 1

\* ------------------------------------------------------------------------
\* Specifications
\* ------------------------------------------------------------------------
vars == <<engineVars, analyzerVars, probeVars, controllerVars>>

\* the engine: calls of getBestMove on one engine instance
Init == InitEngine /\ InitAnalyzer /\ probe = Null /\ InitController

\* the engine and a caller that makes moves between its calls
NextEngine ==
  \/ \E k \in 1 .. MaxBranch : PlayMove(k)
  \/ \E depth \in Depths : GetBestMove(depth)
  \/ MateScan
  \/ RootIter
  \/ RootReturn
  \/ MinimaxMate
  \/ MinimaxLeaf
  \/ MinimaxExpand
  \/ MinimaxIter
  \/ MinimaxReturn

Next == NextEngine

Spec == Init /\ [][Next]_vars

\* the engine: one deep search on a fresh engine
SpecDeep == Init /\ [][NextDeep]_vars

\* the jitter-free evaluator
InitJitterFree == Init /\ rng = 0

\* the engine with the jitter-free evaluator and a caller that makes moves
\* between its calls
SpecJitterFree == InitJitterFree /\ [][NextEngine]_vars

\* the game controller: `new Chess()` is the one standard starting
\* position, White to move
InitGame == InitJitterFree /\ world = StandardGame

\* the engine of a game controller, called by the timer callback and
\* through its presets on the game the controller holds, with the
\* jitter-free evaluator; the player moves by dropping pieces
NextPresets ==
  \/ \E k \in 1 .. MaxBranch :
        /\ k <= NumMoves(world, currentGame)
        /\ OnPieceDrop(MoveAt(world, currentGame, k).from, MoveAt(world, currentGame, k).to)
        /\ UNCHANGED userEvents
  \/ GetBestMoveDefault
  \/ GetQuickMove
  \/ GetStrongMove
  \/ \E newDifficulty \in Difficulties :
        HandleDifficultyChange(newDifficulty) /\ UNCHANGED userEvents
  \/ BotTriggerEffect
  \/ MakeBotMoveCall
  \/ EngineStep
  \/ MakeBotMoveDone

SpecPresets == InitGame /\ [][NextPresets]_vars

\* moves the caller plays before it calls the engine
MaxPlayed == 2

\* calls of getBestMove, with any depth, after at most MaxPlayed moves
NextOneCall ==
  \/ \E k \in 1 .. MaxBranch : Len(heap[1].pos) < MaxPlayed /\ pc = "idle" /\ PlayMove(k)
  \/ \E depth \in Depths : GetBestMove(depth)
  \/ EngineStep

\* the engine with the jitter-free evaluator, a call once begun being run
\* to its end: nothing but the call's own steps can stop it
SpecFair == InitJitterFree /\ [][NextOneCall]_vars /\ WF_vars(EngineStep)

\* the engine with a rules engine that may throw at any of its calls, and
\* a caller that calls again after a failure; the evaluator is the
\* jitter-free one
InitFailing == InitJitterFree

NextFailing ==
  \/ NextOneCall
  \/ ProviderFails
  \/ \E depth \in Depths : GetBestMoveFails(depth)
  \/ Unwind

SpecFailing == InitFailing /\ [][NextFailing]_vars

\* the game controller.  A pending effect runs in the end, and so does a
\* callback given to setTimeout, which is due after 500 ms whatever
\* renders and effects come in between
SpecController ==
  /\ InitGame
  /\ [][NextController]_vars
  /\ SF_vars(BotTimerFires)
  /\ WF_vars(BotTriggerEffect)

\* the analyzer: analyzeGame called, up to MaxRuns times, on a sequence
\* the caller built; the engine is not used
InitAnalysis ==
  /\ positions \in AnalyzerInputs
  /\ apc = "idle"
  /\ ai = 0
  /\ lossLog = << >>
  /\ atEntry = << >>
  /\ runs = 0
  /\ InitEngine
  /\ world = 0
  /\ rng = 0
  /\ probe = Null
  /\ InitController

SpecAnalyzer == InitAnalysis /\ [][NextAnalyzer]_vars

\* direct calls of getPieceValue and evaluatePosition, on any arguments
InitEvaluator ==
  /\ InitEngine
  /\ rng = 0
  /\ InitAnalyzer
  /\ probe \in ProbeInputs(world)
  /\ InitController

SpecEvaluator == InitEvaluator /\ [][NextEvaluator]_vars

\* ------------------------------------------------------------------------
\* Reference definitions used by the properties
\* ------------------------------------------------------------------------
\* the position getBestMove was called on
RootPos == entry.game.pos

\* the indices of the root moves that lead directly to checkmate
MatingMoves(w, pos) ==
  {k \in 1 .. NumMoves(w, pos) : IsCheckmate(w, Append(pos, k))}

FirstOf(S) == CHOOSE k \in S : \A j \in S : k <= j

\* exhaustive minimax without pruning, with the jitter-free evaluator
RECURSIVE PlainMinimax(_, _, _, _, _, _)
PlainMinimax(w, pos, depth, isMax, ply, history) ==
  IF IsCheckmate(w, pos) THEN MateScore(isMax, ply)
  ELSE IF depth = 0 \/ IsGameOver(w, pos) THEN evaluatePosition(w, pos, history, 50)
  ELSE LET vals == {PlainMinimax(w, Append(pos, k), depth - 1, ~isMax, ply + 1, history) :
                      k \in 1 .. NumMoves(w, pos)}
       IN IF isMax THEN CHOOSE v \in vals : \A u \in vals : v >= u
          ELSE CHOOSE v \in vals : \A u \in vals : v <= u

\* the value of root move k under the exhaustive search
PlainRootValue(w, pos, depth, history, k) ==
  PlainMinimax(w, Append(pos, k), depth - 1, FALSE, 1, history)

\* the root selection, first strictly greater value wins: the earliest
\* move whose value is maximal
PlainBest(w, pos, depth, history) ==
  LET n == NumMoves(w, pos)
      k == CHOOSE k \in 1 .. n :
             /\ \A j \in 1 .. n : PlainRootValue(w, pos, depth, history, j)
                                    <= PlainRootValue(w, pos, depth, history, k)
             /\ \A j \in 1 .. k - 1 : PlainRootValue(w, pos, depth, history, j)
                                    < PlainRootValue(w, pos, depth, history, k)
  IN BotMoveOf(MoveAt(w, pos, k))

\* ------------------------------------------------------------------------
\* Properties
\* ------------------------------------------------------------------------

\* C1: for every depth >= 1, a returning getBestMove call returns null
\* exactly when the position has no legal move, and otherwise a move whose
\* from/to/promotion are those of one of the legal moves of the position.
C1_ReturnsLegalMoveOrNull ==
  (pc = "returned" /\ entry.depth >= 1) =>
     /\ (result = Null) <=> (NumMoves(world, RootPos) = 0)
     /\ result # Null =>
          \E k \in 1 .. NumMoves(world, RootPos) :
             result = BotMoveOf(MoveAt(world, RootPos, k))

\* C1 witness: a full search has returned the second of two legal moves.
C1_Witness ==
  /\ pc = "returned"
  /\ entry.depth >= 1
  /\ minimaxCalls > 0
  /\ NumMoves(world, RootPos) >= 2
  /\ result = BotMoveOf(MoveAt(world, RootPos, 2))

\* C2: if some legal root move leads directly to checkmate, getBestMove
\* returns the first such move in move-generation order, whatever the depth,
\* and has not called minimax on any root move.
C2_FirstImmediateMate ==
  (pc = "returned" /\ MatingMoves(world, RootPos) # {}) =>
     /\ result = BotMoveOf(MoveAt(world, RootPos, FirstOf(MatingMoves(world, RootPos))))
     /\ minimaxCalls = 0

\* C2 witness: the mating move is the second root move and the call asked
\* for a deep search.
C2_Witness ==
  /\ pc = "returned"
  /\ entry.depth >= 3
  /\ MatingMoves(world, RootPos) = {2}
  /\ result = BotMoveOf(MoveAt(world, RootPos, 2))

\* C3: with the jitter-free evaluator, the move getBestMove returns is the
\* move the exhaustive unpruned minimax with the same move order and the
\* same first-strictly-greater root selection returns.
C3_PrunedEqualsUnpruned ==
  (pc = "returned" /\ entry.rng = 0 /\ result # Null) =>
     result = PlainBest(world, RootPos, entry.depth,
                        Append(entry.history, Fen(world, RootPos)))

\* C3 witness: a jitter-free search in which siblings were cut off returned
\* the second root move.
C3_Witness ==
  /\ pc = "returned"
  /\ entry.rng = 0
  /\ pruned
  /\ NumMoves(world, RootPos) >= 2
  /\ result = BotMoveOf(MoveAt(world, RootPos, 2))

\* +1 when the evaluator's sign (positive favours Black) is the sign of the
\* side to move in `pos`, -1 otherwise
SideSign(w, pos) == IF Turn(w, pos) = "b" THEN 1 ELSE -1

\* no checkmate among the nodes a search of `depth` plies below pos visits
RECURSIVE NoMateWithin(_, _, _)
NoMateWithin(w, pos, depth) ==
  /\ ~IsCheckmate(w, pos)
  /\ (depth = 0 \/ IsGameOver(w, pos)) \/
       \A k \in 1 .. NumMoves(w, pos) : NoMateWithin(w, Append(pos, k), depth - 1)

\* depth-limited minimax value in favour of the side whose sign is `sign`
\* (its own material and table score minus the opponent's), jitter-free
RECURSIVE SideMinimax(_, _, _, _, _, _)
SideMinimax(w, pos, depth, isMax, sign, history) ==
  IF depth = 0 \/ IsGameOver(w, pos) THEN sign * evaluatePosition(w, pos, history, 50)
  ELSE LET vals == {SideMinimax(w, Append(pos, k), depth - 1, ~isMax, sign, history) :
                      k \in 1 .. NumMoves(w, pos)}
       IN IF isMax THEN CHOOSE v \in vals : \A u \in vals : v >= u
          ELSE CHOOSE v \in vals : \A u \in vals : v <= u

\* no checkmate in the tree getBestMove explores: its root moves, and the
\* nodes minimax visits below each of them
NoMateInTree ==
  \A k \in 1 .. NumMoves(world, RootPos) :
     NoMateWithin(world, Append(RootPos, k), entry.depth - 1)

\* the value of root move k for the side to move at the root
SideRootValue(k) ==
  SideMinimax(world, Append(RootPos, k), entry.depth - 1, FALSE,
              SideSign(world, RootPos), Append(entry.history, Fen(world, RootPos)))

\* C4: with the jitter-free evaluator and no mate in the tree, the move
\* getBestMove returns has the maximal depth-limited minimax value measured
\* in favour of the side to move at the root, whether that side is White or
\* Black.
C4_BestForSideToMove ==
  (/\ pc = "returned"
   /\ entry.rng = 0
   /\ result # Null
   /\ NoMateInTree) =>
     \A j \in 1 .. NumMoves(world, RootPos) :
        SideRootValue(j) <= SideRootValue(MoveIndex(world, RootPos, result))

\* the same statement for the calls with Black to move at the root
C4_BestForBlackToMove ==
  (pc = "returned" /\ Turn(world, RootPos) = "b") => C4_BestForSideToMove

\* how often the key of the last position of `path` occurs before it
OccurrencesBefore(path) ==
  Cardinality({n \in 1 .. Len(path) - 1 :
                 PlacementKey(path[n]) = PlacementKey(path[Len(path)])})

\* C5: in a call on a fresh engine, a leaf that is not a draw and whose
\* piece-placement key already occurred twice on the search path leading to
\* it is evaluated as -5000 with White to move and +5000 with Black to move.
C5_RepetitionPenalty ==
  (/\ lastEval # Null
   /\ entry.history = << >>
   /\ ~IsGameOver(world, lastEval.pos)
   /\ OccurrencesBefore(lastEval.path) >= 2) =>
     lastEval.value = (IF Turn(world, lastEval.pos) = "w"
                         THEN -REPETITION ELSE REPETITION) * ScoreUnit

\* C6: two checkmate nodes reached in the same search with the same
\* maximizing flag at plies p < q get scores of the same sign with
\* magnitudes 100000 - p > 100000 - q.
C6_DeeperMateCloserToZero ==
  \A a \in mateLog : \A b \in mateLog :
     (a.isMaximizing = b.isMaximizing /\ a.ply < b.ply) =>
        /\ (a.score > 0) <=> (b.score > 0)
        /\ Abs(a.score) = (MATE - a.ply) * ScoreUnit
        /\ Abs(b.score) = (MATE - b.ply) * ScoreUnit
        /\ Abs(a.score) > Abs(b.score)

\* C6 witness: one search has scored mates at two plies with the same flag.
C6_Witness ==
  \E a \in mateLog : \E b \in mateLog :
     a.isMaximizing = b.isMaximizing /\ a.ply < b.ply

\* C7: when a getBestMove call has returned (null, the immediate mate or the
\* search result), positionHistory is what it was at the call's entry, and
\* between calls it is empty.
C7_HistoryRestored ==
  /\ pc = "returned" => positionHistory = entry.history
  /\ pc \in {"idle", "returned"} => positionHistory = << >>

\* C7 witness: a call on a game two moves on, after earlier calls on the
\* same engine instance, returned from a search.
C7_Witness ==
  /\ pc = "returned"
  /\ Len(entry.game.pos) >= 2
  /\ minimaxCalls > 0
  /\ result # Null
  /\ positionHistory = << >>

\* the caller's game after a returned call is the game it passed
CallerGameKept == pc = "returned" => heap[1] = entry.game

\* no step of a running call changes the game object of an active
\* invocation: its own game for getBestMove, the copy it was given for minimax
ActiveGamesKept ==
  pc = "running" =>
     \A n \in 1 .. Min(Len(stack), Len(stack')) :
        heap'[stack[n].game] = heap[stack[n].game]

\* C8: getBestMove and minimax never change the position they are given:
\* the caller's game is the same after the call as before, and every
\* invocation's game stays the same while its moves are tried on copies.
C8_PositionsNeverMutated == [](CallerGameKept) /\ [][ActiveGamesKept]_vars

\* C8 witness: a second child is being searched below a node whose first
\* child's subtree has been explored, three copies deep.
C8_Witness ==
  /\ pc = "running"
  /\ Len(stack) >= 4
  /\ stack[2].i >= 2
  /\ stack[3].i >= 2
  /\ heap[1] = entry.game

\* the evaluation of element i of the sequence (0-based, as in the source)
EvalAt(i) == positions[i + 1].evaluation

\* the classification bands of the claim, stated one by one
Band(evalLoss) ==
  CASE evalLoss <= 25 -> BEST
    [] 25 < evalLoss /\ evalLoss <= 50 -> EXCELLENT
    [] 50 < evalLoss /\ evalLoss <= 100 -> GOOD
    [] 100 < evalLoss /\ evalLoss <= 200 -> INACCURACY
    [] 200 < evalLoss /\ evalLoss <= 400 -> MISTAKE
    [] evalLoss > 400 -> BLUNDER

\* C9: every evalLoss analyzeGame classifies gets the classification of its
\* band (Best up to 25, Excellent up to 50, Good up to 100, Inaccuracy up to
\* 200, Mistake up to 400, Blunder above), and no element ever carries
\* Brilliant, Great, Book or Forced.
C9_ClassificationBands ==
  /\ \A i \in 1 .. Len(lossLog) :
        positions[i + 1].classification = Band(lossLog[i])
  /\ \A n \in 1 .. Len(positions) :
        positions[n].classification \notin {BRILLIANT, GREAT, BOOK, FORCED}

\* C9 witness: one run classified a loss of exactly 50 as Excellent and a
\* loss of 401 as Blunder.
C9_Witness ==
  /\ Len(lossLog) = 2
  /\ lossLog[1] = 50
  /\ lossLog[2] = 401
  /\ positions[2].classification = EXCELLENT
  /\ positions[3].classification = BLUNDER

\* C10: at every index i >= 1 the evalLoss that is classified is
\* -(eval[i] - eval[i-1]) for odd i and eval[i] - eval[i-1] for even i, so it
\* is positive exactly when the evaluation moved against the side that just
\* moved (down for the first side, up for the second).
C10_LossSignByParity ==
  \A i \in 1 .. Len(lossLog) :
     /\ lossLog[i] = IF i % 2 = 1 THEN -(EvalAt(i) - EvalAt(i - 1))
                                  ELSE EvalAt(i) - EvalAt(i - 1)
     /\ (lossLog[i] > 0) <=> (IF i % 2 = 1 THEN EvalAt(i) < EvalAt(i - 1)
                                           ELSE EvalAt(i) > EvalAt(i - 1))
     /\ positions[i + 1].classification = classifyMove(lossLog[i])

\* C10 witness: a run in which the first side lost 100 at index 1 and the
\* second side lost 100 at index 2.
C10_Witness ==
  /\ Len(lossLog) = 2
  /\ EvalAt(0) = 100 /\ EvalAt(1) = 0 /\ EvalAt(2) = 100
  /\ lossLog = <<100, 100>>

\* the evaluations of the sequence, in order
Evaluations == [n \in 1 .. Len(positions) |-> positions[n].evaluation]

\* C11 as stated: for the evaluations [0, 30, 30] the loss at ply 1 is -30
\* (Best) and the loss at ply 2 is +30 (Excellent).
C11_ExampleAsStated ==
  (Evaluations = <<0, 30, 30>> /\ Len(lossLog) = 2)
    => /\ lossLog = <<-30, 30>>
       /\ positions[2].classification = BEST
       /\ positions[3].classification = EXCELLENT

\* C11 (amended): for the evaluations [0, 30, 30] the loss at ply 1 is -30
\* (Best) and the loss at ply 2 is 30 - 30 = 0, classified Best.
C11_ExampleAmended ==
  (Evaluations = <<0, 30, 30>> /\ Len(lossLog) = 2)
    => /\ lossLog = <<-30, 0>>
       /\ positions[2].classification = BEST
       /\ positions[3].classification = BEST

\* C11 witness: a run over the evaluations [0, 30, 30] has classified both
\* moves.
C11_Witness ==
  /\ Evaluations = <<0, 30, 30>>
  /\ Len(lossLog) = 2
  /\ apc = "idle"
  /\ runs = 1

\* C12: a run of analyzeGame on a sequence that an earlier run already
\* classified, the evaluations being the same, leaves the whole sequence
\* (classification, fen, move and evaluation of every element) as it was when
\* that run began, at every step of the run and at its end.
C12_Idempotent ==
  ((apc = "loop" /\ runs >= 1) \/ (apc = "idle" /\ runs >= 2))
    => positions = atEntry

\* C12 witness: a second run over a three-element sequence has ended, with
\* a move classified other than Best.
C12_Witness ==
  /\ apc = "idle"
  /\ runs = 2
  /\ Len(positions) = 3
  /\ Len(lossLog) = 2
  /\ positions[2].classification = BLUNDER
  /\ positions[3].classification = GOOD

\* a run is going on or has ended, and the sequence was not appended to since
RunSeen == apc = "loop" \/ runs >= 1

\* C13: analyzeGame never writes a classification to element 0; on an empty
\* or one-element sequence it changes nothing and ends normally; it never
\* changes the length of the sequence nor any fen, move or evaluation.
C13_FrameOfAnalyzeGame ==
  /\ Len(positions) >= 1 => positions[1].classification = Undefined
  /\ RunSeen =>
       /\ Len(positions) = Len(atEntry)
       /\ \A n \in 1 .. Len(positions) :
             /\ positions[n].fen = atEntry[n].fen
             /\ positions[n].move = atEntry[n].move
             /\ positions[n].evaluation = atEntry[n].evaluation
       /\ Len(positions) <= 1 => positions = atEntry

\* C13 witness: a run over three elements has ended; elements 1 and 2 are
\* classified and element 0 is not.
C13_Witness ==
  /\ apc = "idle"
  /\ runs = 1
  /\ Len(positions) = 3
  /\ positions[1].classification = Undefined
  /\ positions[2].classification = MISTAKE
  /\ positions[3].classification = INACCURACY

\* a run over the empty sequence has ended
C13_EmptyRunEnded == apc = "idle" /\ runs >= 1 /\ positions = << >>

\* a direct call of getPieceValue has returned
PieceValueReturned ==
  probe # Null /\ probe.op = "getPieceValue" /\ probe.out # Null

\* the direct calls of evaluatePosition that have returned
EvalsReturned ==
  IF probe # Null /\ probe.op = "evaluatePosition" THEN 1 .. Len(probe.outs) ELSE {}

\* the positional table of each piece kind
OwnTable(t) ==
  CASE t = "p" -> PAWN_TABLE
    [] t = "n" -> KNIGHT_TABLE
    [] t = "b" -> BISHOP_TABLE
    [] t = "r" -> ROOK_TABLE
    [] t = "q" -> QUEEN_TABLE
    [] t = "k" -> KING_TABLE

\* rank index of a board row (row 0 of board() is rank 8), mirrored for Black
RankIndex(color, row) == IF color = "w" THEN 7 - row ELSE 7 - (7 - row)

\* base material value x 100 plus the entry of the kind's own table
OwnTableValue(piece, row, col) ==
  PIECE_VALUES[piece.type] * 100
    + OwnTable(piece.type)[RankIndex(piece.color, row) + 1][col + 1]

RECURSIVE OwnTableSum(_)
OwnTableSum(pieces) ==
  IF pieces = {} THEN 0
  ELSE LET piece == CHOOSE x \in pieces : TRUE
           value == OwnTableValue(piece, piece.row, piece.col)
       IN (IF piece.color = "b" THEN value ELSE -value) + OwnTableSum(pieces \ {piece})

\* C14: for every piece kind, colour and square getPieceValue returns base
\* value x 100 plus the entry of that kind's own table at the rank index
\* (mirrored for Black) and file, and the material score of evaluatePosition
\* is the sum of these values, added for Black and subtracted for White.
C14_OwnTableForEveryKind ==
  /\ PieceValueReturned =>
       probe.out.value = OwnTableValue(probe.piece, probe.row, probe.col)
  /\ \A n \in EvalsReturned :
       probe.outs[n].randomCalled =>
         probe.outs[n].value =
           OwnTableSum(Board(world, probe.args[n].pos)) * ScoreUnit
             + (probe.args[n].random - 50)

\* C14 for the kinds other than the queen: the statement holds for pawn,
\* knight, bishop, rook and king; a queen is worth its base value alone.
C14_OwnTableExceptQueen ==
  PieceValueReturned =>
    probe.out.value = IF probe.piece.type = "q"
                        THEN PIECE_VALUES["q"] * 100
                        ELSE OwnTableValue(probe.piece, probe.row, probe.col)

\* C15: evaluatePosition returns exactly -100000 for a checkmate position
\* with White to move and +100000 with Black to move, and exactly 0 for a
\* drawn or stalemated position that is not checkmate, whatever the history
\* and without calling Math.random.
C15_TerminalScores ==
  \A n \in EvalsReturned :
     LET a == probe.args[n]
         out == probe.outs[n]
     IN /\ IsCheckmate(world, a.pos) =>
             /\ out.value = (IF Turn(world, a.pos) = "w" THEN -100000 ELSE 100000) * ScoreUnit
             /\ ~out.randomCalled
        /\ (~IsCheckmate(world, a.pos) /\ (IsDraw(world, a.pos) \/ IsStalemate(world, a.pos))) =>
             /\ out.value = 0
             /\ ~out.randomCalled

\* C15 witness: evaluatePosition was called on a checkmate position with
\* White to move that the library also reports as drawn, with a history
\* that holds its placement twice, and returned -100000.
C15_Witness ==
  /\ EvalsReturned # {}
  /\ LET a == probe.args[1]
     IN /\ IsCheckmate(world, a.pos)
        /\ IsDraw(world, a.pos)
        /\ Turn(world, a.pos) = "w"
        /\ Repetitions(a.history, PlacementKey(Fen(world, a.pos))) >= 2
        /\ a.random = 99
        /\ probe.outs[1].value = -100000 * ScoreUnit

\* a stalemate position was evaluated with a history that holds its
\* placement twice, and the value is 0
C15_StalemateEvaluated ==
  /\ EvalsReturned # {}
  /\ LET a == probe.args[1]
     IN /\ IsStalemate(world, a.pos)
        /\ Repetitions(a.history, PlacementKey(Fen(world, a.pos))) >= 2
        /\ probe.outs[1].value = 0

\* C16: when a call of the rules engine throws inside getBestMove or
\* minimax, the getBestMove call ends by throwing: it does not return, so
\* there is no null and no move as its result.  The exception leaves one
\* frame after the other, no frame turning it into a result, and has left
\* getBestMove exactly when the last frame is gone.
C16_FailurePropagates ==
  /\ [](/\ failed => (pc \in {"unwinding", "thrown"} /\ result = Null)
        /\ pc = "thrown" => (failed /\ stack = << >>)
        /\ pc = "returned" => ~failed)
  /\ [][pc = "unwinding" =>
          /\ pc' \in {"unwinding", "thrown"}
          /\ Len(stack') = Len(stack) - 1
          /\ pc' = "thrown" <=> stack' = << >>
          /\ result' = result]_vars

\* C16 witness: on an engine that had a failed call before, the rules
\* engine threw inside the search, after minimax had been entered at least
\* twice, and the call ended by throwing.
C16_Witness ==
  /\ failed
  /\ pc = "thrown"
  /\ minimaxCalls >= 2
  /\ Len(entry.history) = 1
  /\ Len(positionHistory) = 2

\* the depth each way of calling the engine is claimed to search with
ClaimedDepth ==
  CASE probe.op = "getQuickMove" -> 2
    [] probe.op = "getStrongMove" -> 4
    [] probe.op = "getBestMove" -> 3
    [] probe.op = "makeBotMove" /\ probe.botDifficulty = "easy" -> 2
    [] probe.op = "makeBotMove" /\ probe.botDifficulty = "medium" -> 3
    [] probe.op = "makeBotMove" /\ probe.botDifficulty = "hard" -> 4

\* C17: getQuickMove searches as getBestMove with depth 2, getStrongMove
\* with depth 4, getBestMove without a depth with depth 3, the controller's
\* easy/medium/hard with depth 2/3/4, which is the depth the difficulty
\* label shows; the move returned is the one a depth-limited search of
\* that depth returns.
C17_DepthPresets ==
  (probe # Null /\ pc \in {"running", "returned"}) =>
     /\ entry.depth = ClaimedDepth
     /\ probe.op = "makeBotMove" => LabelDepth(probe.botDifficulty) = entry.depth
     /\ (pc = "returned" /\ result # Null) =>
          result = PlainBest(world, RootPos, ClaimedDepth,
                             Append(entry.history, Fen(world, RootPos)))

\* C17 witness: the controller's medium difficulty returned a move that
\* differs from the one a depth-4 search returns.
C17_Witness ==
  /\ probe # Null
  /\ probe.op = "makeBotMove"
  /\ probe.botDifficulty = "medium"
  /\ pc = "returned"
  /\ result # Null
  /\ result # PlainBest(world, RootPos, 4, Append(entry.history, Fen(world, RootPos)))

\* getQuickMove returned a move that differs from the one of a depth-3 search
C17_QuickDiffersFromDefault ==
  /\ probe # Null
  /\ probe.op = "getQuickMove"
  /\ pc = "returned"
  /\ result # Null
  /\ result # PlainBest(world, RootPos, 3, Append(entry.history, Fen(world, RootPos)))

\* C18: at every moment of a getBestMove call on a fresh engine the length
\* of positionHistory is at most the number of nodes on the active search
\* path, the root included.
C18_HistoryWithinPath ==
  (pc = "running" /\ entry.history = << >>) =>
     Len(positionHistory) <= Len(stack)

\* C18 witness: a call on a fresh engine is three plies below the root,
\* the history holding one entry.
C18_Witness ==
  /\ pc = "running"
  /\ entry.history = << >>
  /\ Len(stack) = 4
  /\ Len(positionHistory) = 1

\* the jitter-free material score of the n-th direct evaluatePosition call
MaterialOf(n) == SumPieces(Board(world, probe.args[n].pos)) * ScoreUnit

\* the score of the n-th call without the jitter
JitterFree(n) ==
  IF probe.outs[n].randomCalled THEN MaterialOf(n) ELSE probe.outs[n].value

\* C19: the jitter has magnitude at most 0.05 and is added to material
\* scores only: a mate, draw or repetition score is returned without a call
\* of Math.random and is a whole number; the jitter-free material score is a
\* whole number, so of two evaluated positions with different jitter-free
\* material scores the one with the smaller score keeps the smaller value.
C19_JitterBreaksOnlyTies ==
  /\ \A n \in EvalsReturned :
       IF probe.outs[n].randomCalled
         THEN /\ Abs(probe.outs[n].value - MaterialOf(n)) * 100 <= 5 * ScoreUnit
              /\ MaterialOf(n) % ScoreUnit = 0
         ELSE probe.outs[n].value \in
                {0, MATE * ScoreUnit, -MATE * ScoreUnit,
                 REPETITION * ScoreUnit, -REPETITION * ScoreUnit}
  /\ EvalsReturned = {1, 2} =>
       /\ JitterFree(1) < JitterFree(2) => probe.outs[1].value < probe.outs[2].value
       /\ JitterFree(1) > JitterFree(2) => probe.outs[1].value > probe.outs[2].value

\* C19 witness: two positions with equal jitter-free scores were evaluated
\* and the jitter put the first above the second.
C19_Witness ==
  /\ EvalsReturned = {1, 2}
  /\ probe.outs[1].randomCalled
  /\ probe.outs[2].randomCalled
  /\ probe.args[1].pos # probe.args[2].pos
  /\ MaterialOf(1) = MaterialOf(2)
  /\ probe.outs[1].value > probe.outs[2].value

\* two positions with different jitter-free scores were evaluated with the
\* jitter working against their order
C19_OrderKept ==
  /\ EvalsReturned = {1, 2}
  /\ probe.outs[1].randomCalled
  /\ probe.outs[2].randomCalled
  /\ MaterialOf(1) < MaterialOf(2)
  /\ probe.args[1].random = 99
  /\ probe.args[2].random = 0

\* depthRemaining at the node of the last evaluatePosition call
LastEvalDepth == entry.depth - (Len(lastEval.path) - 1)

\* C20: a checkmate node gets -(100000 - ply) when maximizing and
\* +(100000 - ply) when minimizing whatever depthRemaining is; the evaluator
\* is called only at nodes that are not checkmate and have depthRemaining 0
\* or a finished game, and its score is what such a node returns.
C20_CheckmateBeforeDepth ==
  /\ \A m \in mateLog :
        m.score = IF m.isMaximizing THEN -(100000 - m.ply) * ScoreUnit
                                    ELSE (100000 - m.ply) * ScoreUnit
  /\ lastEval # Null =>
        /\ ~IsCheckmate(world, lastEval.pos)
        /\ LastEvalDepth = 0 \/ IsGameOver(world, lastEval.pos)
        /\ entry.rng = 0 =>
             lastEval.value = evaluatePosition(world, lastEval.pos, lastEval.history, 50)

\* C20 witness: a checkmate node with depthRemaining 0 was scored as a mate.
C20_Witness ==
  /\ pc \in {"running", "returned"}
  /\ entry.depth >= 2
  /\ \E m \in mateLog : m.ply = entry.depth

\* the evaluator was called above the depth limit, at a finished game
C20_GameOverEvaluated ==
  /\ lastEval # Null
  /\ pc = "running"
  /\ LastEvalDepth > 0
  /\ IsGameOver(world, lastEval.pos)

\* the minimax calls on the stack that are in their loop
LoopFrames == {n \in 2 .. Len(stack) : stack[n].phase = "loop"}

\* the loop of a frame is over: the moves are exhausted or it was cut off
LoopOver(f) == f.i > Len(f.moves) \/ f.cut

\* the unpruned jitter-free value of the node of frame f
PlainValueOf(f) ==
  PlainMinimax(world, heap[f.game].pos, f.depth, f.isMaximizing, f.ply, positionHistory)

\* C21: with the jitter-free evaluator every minimax call is entered with
\* alpha < beta, its loop stops at the first child after which
\* beta <= alpha, and the value v it returns relates to the unpruned value u
\* of its node: v = u if alpha < u < beta, v <= alpha if u <= alpha,
\* v >= beta if u >= beta (alpha and beta as passed to the call).
C21_FailSoftBounds ==
  pc = "running" =>
    \A n \in 2 .. Len(stack) :
       LET f == stack[n]
           u == PlainValueOf(f)
       IN /\ f.alpha0 < f.beta0
          /\ f.phase = "loop" =>
               /\ f.cut = (f.i > 1 /\ f.beta <= f.alpha)
               /\ f.cut => n = Len(stack)
               /\ (n = Len(stack) /\ LoopOver(f)) =>
                    /\ (f.alpha0 < u /\ u < f.beta0) => f.best = u
                    /\ u <= f.alpha0 => f.best <= f.alpha0
                    /\ u >= f.beta0 => f.best >= f.beta0

\* C21 witness: a loop was cut off with siblings left and returns a value
\* that is not the unpruned value of its node.
C21_Witness ==
  /\ pc = "running"
  /\ Len(stack) >= 3
  /\ LET f == Top(stack)
     IN /\ f.phase = "loop"
        /\ f.cut
        /\ f.i <= Len(f.moves)
        /\ f.best # PlainValueOf(f)

\* a loop ended inside its window with the unpruned value
C21_ExactInsideWindow ==
  /\ pc = "running"
  /\ Len(stack) >= 3
  /\ LET f == Top(stack)
     IN /\ f.phase = "loop"
        /\ LoopOver(f)
        /\ -Infinity < f.alpha0
        /\ f.alpha0 < PlainValueOf(f)
        /\ PlainValueOf(f) < f.beta0
        /\ f.beta0 < Infinity

\* the greatest of the first n values of a sequence, -Infinity for none
RECURSIVE MaxOfFirst(_, _)
MaxOfFirst(vals, n) ==
  IF n = 0 THEN -Infinity ELSE Max(MaxOfFirst(vals, n - 1), vals[n])

\* the earliest index at which a non-empty sequence has its greatest value
EarliestMax(vals) ==
  CHOOSE k \in 1 .. Len(vals) :
     /\ vals[k] = MaxOfFirst(vals, Len(vals))
     /\ \A j \in 1 .. k - 1 : vals[j] < vals[k]

\* C22: once the mate scan found nothing, the root loop calls minimax on
\* the legal root moves one by one in generation order: the k-th call gets
\* alpha = the greatest value returned by the first k-1 calls (-Infinity for
\* the first) and beta = +Infinity, no root move is skipped, and the move
\* kept when the loop ends is the earliest one whose returned value is the
\* greatest.
C22_RootLoop ==
  (pc = "running" /\ stack[1].phase = "search") =>
     LET f == stack[1]
     IN /\ f.moves = Moves(world, heap[1].pos)
        /\ Len(f.vals) = f.i - 1
        /\ f.i <= Len(f.moves) + 1
        /\ f.alpha = MaxOfFirst(f.vals, Len(f.vals))
        /\ f.beta = Infinity
        /\ ~f.cut
        /\ Len(stack) >= 2 =>
             /\ stack[2].alpha0 = MaxOfFirst(f.vals, f.i - 1)
             /\ stack[2].beta0 = Infinity
             /\ stack[2].ply = 1
             /\ ~stack[2].isMaximizing
             /\ stack[2].depth = entry.depth - 1
             /\ heap[stack[2].game].pos = Append(heap[1].pos, f.i)
        /\ f.i >= 2 =>
             f.bestMove = BotMoveOf(f.moves[EarliestMax(f.vals)])
        /\ f.i = 1 => f.bestMove = Null

\* C22 witness: the root loop has ended over two root moves whose returned
\* values are equal, and the first one is kept.
C22_Witness ==
  /\ pc = "running"
  /\ Len(stack) = 1
  /\ stack[1].phase = "search"
  /\ stack[1].i = 3
  /\ Len(stack[1].moves) = 2
  /\ stack[1].vals[1] = stack[1].vals[2]
  /\ stack[1].bestMove = BotMoveOf(stack[1].moves[1])

\* the second call of the root loop is running with a finite alpha
C22_SecondChildAlpha ==
  /\ pc = "running"
  /\ Len(stack) >= 2
  /\ stack[1].phase = "search"
  /\ stack[1].i = 2
  /\ stack[2].alpha0 = stack[1].vals[1]

\* at every active node: ply and depthRemaining move by one per recursive
\* step, the flag alternates, and nothing lies more than `depth` plies
\* below the root
DepthDiscipline ==
  (pc = "running" /\ entry.depth >= 1) =>
     /\ \A n \in 1 .. Len(stack) :
          /\ stack[n].ply = n - 1
          /\ stack[n].depth = entry.depth - (n - 1)
          /\ stack[n].isMaximizing = (stack[n].ply % 2 = 0)
          /\ stack[n].ply <= entry.depth
          /\ (n >= 2 /\ stack[n].phase = "loop") => stack[n].ply < entry.depth
     /\ lastEval # Null => Len(lastEval.path) - 1 <= entry.depth

\* C23: for every depth >= 1 a getBestMove call that has begun returns, the
\* evaluator is never applied and moves are never generated more than
\* `depth` plies below the root, depthRemaining falls by 1 and ply rises by
\* 1 at each recursive step, and nodes at odd ply are minimizing, nodes at
\* even ply maximizing.
C23_TerminatesWithinDepth ==
  /\ []DepthDiscipline
  /\ (pc = "running") ~> (pc = "returned")

\* C23 witness: a depth-4 search has evaluated a leaf four plies below the
\* root.
C23_Witness ==
  /\ pc = "running"
  /\ entry.depth = 4
  /\ lastEval # Null
  /\ Len(lastEval.path) - 1 = 4
  /\ Len(stack) = 4

\* the leaf evaluated last and the number of history entries with its
\* piece placement, as counted at lines 201-206
LeafRepetitions == Repetitions(lastEval.history, PlacementKey(Fen(world, lastEval.pos)))

\* C25: during a getBestMove call on a fresh engine positionHistory holds
\* exactly one entry, the root position, whatever minimax is doing, and at
\* every leaf the evaluator counts at most one history entry with the
\* leaf's piece placement.
C25_OneHistoryEntry ==
  (pc = "running" /\ entry.history = << >>) =>
     /\ positionHistory = << Fen(world, RootPos) >>
     /\ lastEval # Null =>
          /\ lastEval.history = positionHistory
          /\ LeafRepetitions <= 1

\* C25 witness: a leaf below the root with the root's piece placement was
\* evaluated, the count being 1.
C25_Witness ==
  /\ pc = "running"
  /\ entry.history = << >>
  /\ lastEval # Null
  /\ Len(lastEval.path) >= 3
  /\ LeafRepetitions = 1

\* C26: a getBestMove call that ends with a propagated failure of the
\* rules engine leaves positionHistory as it was before the call, so every
\* call on the instance starts from the empty history of a fresh engine.
C26_HistoryKeptOnFailure ==
  /\ pc = "thrown" => positionHistory = entry.history
  /\ pc = "running" => entry.history = << >>

\* C24: gamePositions is never empty, its element 0 is the initial
\* position with empty san and uci and evaluation 0, and it is one longer
\* than moveHistory, whatever the player, the bot, undo, restart and move
\* clicks did.
C24_InitialPositionFirst ==
  /\ Len(gamePositions) >= 1
  /\ Len(gamePositions) = Len(moveHistory) + 1
  /\ Len(gamePositions) >= 1 =>
       /\ gamePositions[1].fen = Fen(world, << >>)
       /\ gamePositions[1].move.san = EmptyText
       /\ gamePositions[1].move.uci = EmptyText
       /\ gamePositions[1].evaluation = 0

\* a player move by drop or voice changed the game
PlayerMoved ==
  /\ lastAction'.op \in {"onPieceDrop", "handleVoiceCommand"}
  /\ currentGame' # currentGame

\* the callback of a bot turn ran
BotTurnEnded == lastAction'.op = "makeBotMove"

\* the steps of C29: the player moves only with White to move, the game
\* not over and the bot not thinking; the bot computes its move from, and
\* applies it to, a position with Black to move and the game not over
TurnsRespected ==
  /\ PlayerMoved =>
       /\ Turn(world, currentGame) = "w"
       /\ ~IsGameOver(world, currentGame)
       /\ ~isThinking
       /\ lastAction'.from = currentGame
       /\ Len(currentGame') = Len(currentGame) + 1
  /\ BotTurnEnded =>
       /\ Turn(world, lastAction'.from) = "b"
       /\ ~IsGameOver(world, lastAction'.from)
       /\ IsLegal(world, lastAction'.from,
                  MoveAt(world, lastAction'.from, currentGame'[Len(currentGame')]))
       /\ currentGame' = Append(lastAction'.from, currentGame'[Len(currentGame')])
       /\ ~isThinking'

\* C29: a player move by drag-and-drop or voice changes the game only when
\* White is to move, the game is not over and the bot is not thinking; the
\* bot computes and applies a move only from a position where Black is to
\* move and the game is not over; and whenever isThinking is true it is
\* false again later.
C29_TurnsAndThinking ==
  /\ [][TurnsRespected]_vars
  /\ [](isThinking => timers # << >>)
  /\ isThinking ~> ~isThinking

\* the greatest magnitude getPieceValue has for any piece on any square
MaxPieceMagnitude ==
  LET all == {Abs(getPieceValue(Pc(t, c, row, col), row, col)) :
                t \in PieceTypes, c \in Colors, row \in 0 .. 7, col \in 0 .. 7}
  IN CHOOSE m \in all : \A x \in all : x <= m

\* no score evaluatePosition returns for a position that is not checkmate
\* has a greater magnitude, whatever stands on the 64 squares: the material
\* and table sum with the jitter, the repetition score, or 0
NonMateCeiling ==
  Max(64 * MaxPieceMagnitude * ScoreUnit + 50, REPETITION * ScoreUnit)

\* the magnitude of the score of a mate `ply` plies below the root
MateFloor(ply) == (MATE - ply) * ScoreUnit

\* C27: for depths 1 to 4 every mate score of minimax has magnitude
\* 100000 - ply with ply <= depth, above every score the evaluator returns
\* for a position that is not checkmate; so among the values of the root
\* moves a won mate beats every other value and every other value beats a
\* lost mate: the root keeps a mating line whenever there is one, and a
\* line that is not mated whenever there is one.
C27_MateOutweighsMaterial ==
  /\ NonMateCeiling < MateFloor(MaxDepth)
  /\ (pc = "running" /\ entry.depth >= 1) =>
       /\ \A m \in mateLog :
            /\ m.ply <= entry.depth
            /\ Abs(m.score) = MateFloor(m.ply)
            /\ Abs(m.score) > NonMateCeiling
       /\ lastEval # Null => Abs(lastEval.value) <= NonMateCeiling
       /\ stack[1].phase = "search" =>
            LET f == stack[1]
                won == {n \in 1 .. Len(f.vals) : f.vals[n] >= MateFloor(entry.depth)}
                lost == {n \in 1 .. Len(f.vals) : f.vals[n] <= -MateFloor(entry.depth)}
            IN /\ \A n \in 1 .. Len(f.vals) :
                    n \in won \cup lost \/ Abs(f.vals[n]) <= NonMateCeiling
               /\ won # {} => f.best >= MateFloor(entry.depth)
               /\ lost # 1 .. Len(f.vals) => f.best > -MateFloor(entry.depth)
               /\ f.vals # << >> => f.best = f.vals[EarliestMax(f.vals)]

\* C27 witness: the root loop has ended; one root move forces mate, another
\* has a material value, and the mating move is kept.
C27_Witness ==
  /\ pc = "running"
  /\ entry.depth >= 1
  /\ Len(stack) = 1
  /\ stack[1].phase = "search"
  /\ stack[1].i > Len(stack[1].moves)
  /\ \E a \in 1 .. Len(stack[1].vals) : \E b \in 1 .. Len(stack[1].vals) :
        /\ stack[1].vals[a] >= MateFloor(entry.depth)
        /\ Abs(stack[1].vals[b]) <= NonMateCeiling
        /\ stack[1].bestMove = BotMoveOf(stack[1].moves[a])

\* C28: for every depth >= 0 passed to getBestMove, the depthRemaining of
\* every minimax call is at least 0 and no minimax call is more than
\* max(depth, 1) plies below the root: the search is bounded by its depth,
\* for depth 0 too.
C28_DepthNeverNegative ==
  pc = "running" =>
    \A n \in 1 .. Len(stack) :
      stack[n].fn = "minimax" =>
        /\ stack[n].depth >= 0
        /\ stack[n].ply <= Max(entry.depth, 1)

====
